---- MODULE Spec2Model ----
(***************************************************************************)
(* SigmaToolkit, folder-permissions module                                 *)
(* (src/file_folder_permissions/permissions_tools.py).                     *)
(*                                                                         *)
(* Text is modelled as a sequence of tokens: a token is one of the atoms   *)
(* the parser distinguishes (an identity, a flag code, ":", "(", ")", "|", *)
(* a path component, a separator, a blank).  Slicing a string by k         *)
(* characters is slicing the token sequence by the tokens those characters *)
(* make up; Concat gives back the Python string.                           *)
(***************************************************************************)
EXTENDS Integers, Sequences, FiniteSets, TLC

VARIABLES
    parse_pc,      \* "input": an ACE line is given; "parsed": it was parsed
    ace_identity,  \* the identity written on the ACE line
    ace_groups,    \* the parenthesized groups written on it, in order
    parsed,        \* the PermissionEntry list the parser returned for it
    scan_pc,       \* position inside scan_folder_permissions
    folder_path,   \* its argument, as the caller typed it
    include_subfolders,  \* its argument
    tree,          \* the directories below folder_path on disk
    subdirs,       \* the local list of directories to scan
    next_dir,      \* index in subdirs of the directory the loop scans next
    permissions,   \* the local list of entries accumulated so far
    result,        \* the list the call returned (empty until it returns)
    os_calls,      \* the operating-system queries the current call has made
    app,           \* "running", or "aborted" once Qt has ended the process
    buttons,       \* enabled state of the tab's buttons, by widget name
    show_groups_only,  \* the "Show AD Groups Only" checkbox
    folder_exists, \* whether the folder named in the path field is on disk
    workers,       \* the ScanWorker threads created so far, in order
    signals,       \* signals emitted by workers, queued for the UI thread
    permissions_data,  \* PermissionsTab.permissions_data
    results_table, \* the rows the results table shows
    interruption_requested,  \* QThread's interruption flag of the worker
    csv,           \* an export_to_csv call: the list, the file, the read-back
    conv,          \* a _convert_to_readable_permissions call: codes, phrase
    port,          \* PortListenerTools: listening flag, socket, listen thread
    speedtest,     \* SpeedTestTools: construction, CLI process, test_running
    blocking_calls,  \* the blocking calls made so far: [op, thread]
    services,      \* ServicesTools.services: the registered service keys
    last_check_results,  \* ServicesTools.last_check_results: key -> status
    service_threads,  \* the threading.Thread checkers started so far
    accesses,      \* which thread read or wrote which attribute
    filt,          \* a filter_permissions call: the list, the flag, the result
    ad,            \* an AD query: the entries found, users_data, the summary
    adtab          \* ADPasswordTab: its worker threads, timer and buttons

parse_vars == <<parse_pc, ace_identity, ace_groups, parsed>>
scan_vars == <<scan_pc, folder_path, include_subfolders, tree, subdirs,
               next_dir, permissions, result, os_calls>>
tab_vars == <<app, buttons, show_groups_only, folder_exists, workers, signals,
              permissions_data, results_table>>
net_vars == <<port, speedtest, blocking_calls>>
svc_vars == <<services, last_check_results, service_threads, accesses>>
more_vars == <<filt, ad, adtab>>
other_tabs_vars == <<net_vars, svc_vars, more_vars>>
rest_vars == <<interruption_requested, csv, conv, other_tabs_vars>>
vars == <<parse_vars, scan_vars, tab_vars, rest_vars>>

\* The variables outside each component.
not_parse_vars == <<scan_vars, tab_vars, rest_vars>>
not_scan_vars == <<parse_vars, tab_vars, rest_vars>>
not_tab_vars == <<parse_vars, scan_vars, rest_vars>>
not_net_vars == <<parse_vars, scan_vars, tab_vars, interruption_requested,
                  csv, conv, svc_vars, more_vars>>
not_svc_vars == <<parse_vars, scan_vars, tab_vars, interruption_requested,
                  csv, conv, net_vars, more_vars>>

-----------------------------------------------------------------------------
(* Bounds *)

MaxGroups == 3   \* parenthesized groups on one ACE line
MaxSubdirs == 2  \* directories below the scanned root

-----------------------------------------------------------------------------
(* Strings as token sequences *)

RECURSIVE Concat(_)
Concat(toks) == IF toks = <<>> THEN "" ELSE Head(toks) \o Concat(Tail(toks))

RECURSIVE Join(_, _)
Join(strs, sep) ==
    IF strs = <<>> THEN ""
    ELSE IF Len(strs) = 1 THEN strs[1]
    ELSE strs[1] \o sep \o Join(Tail(strs), sep)

RECURSIVE LStrip(_)
LStrip(toks) ==
    IF toks # <<>> /\ Head(toks) = " " THEN LStrip(Tail(toks)) ELSE toks

RECURSIVE RStrip(_)
RStrip(toks) ==
    IF toks # <<>> /\ toks[Len(toks)] = " "
    THEN RStrip(SubSeq(toks, 1, Len(toks) - 1))
    ELSE toks

Strip(toks) == RStrip(LStrip(toks))

Contains(toks, t) == \E i \in 1..Len(toks) : toks[i] = t

StartsWith(toks, prefix) ==
    /\ Len(prefix) <= Len(toks)
    /\ SubSeq(toks, 1, Len(prefix)) = prefix

\* str.find(':('): the 0-based character offset of the first ':(' or -1.
\* Every token is at least one character, so the offset is > 0 exactly when
\* the ':' token is not the first token; the model returns the 1-based token
\* index of ':' and 0 for "absent".
FindColonParen(toks) ==
    LET hits == {i \in 1..(Len(toks) - 1) : toks[i] = ":" /\ toks[i + 1] = "("}
    IN  IF hits = {} THEN 0
        ELSE CHOOSE i \in hits : \A j \in hits : i <= j

-----------------------------------------------------------------------------
(* PermissionEntry *)

PermissionEntry(path, identity, permission, access_type, inherited) ==
    [path |-> path, identity |-> identity, permission |-> permission,
     access_type |-> access_type, inherited |-> inherited]

FullPhrase == "Read, Write, Change, Delete, List"

-----------------------------------------------------------------------------
(* _convert_to_readable_permissions *)

\* code.strip().upper() on the codes the model feeds in.
Upper(code) ==
    CASE code = "f" -> "F"
      [] code = " w " -> "W"
      [] code = "m" -> "M"
      [] code = "r" -> "R"
      [] code = "rx" -> "RX"
      [] OTHER -> code

AnyIn(codes, set) == \E i \in 1..Len(codes) : codes[i] \in set

\* Mutant: List is appended for an execute code only, not for a read code.
ConvertToReadablePermissions_ListOnExecuteOnly(permission_codes) ==
    LET codes == [i \in 1..Len(permission_codes) |-> Upper(permission_codes[i])]
        has_read0 == AnyIn(codes, {"R", "RX", "RC", "GR", "RD"})
        has_write == AnyIn(codes, {"W", "WD", "AD", "WEA", "GW"})
        has_execute0 == AnyIn(codes, {"RX", "X", "GE"})
        has_delete == AnyIn(codes, {"D", "DC", "DA"})
        has_read == has_read0 \/ AnyIn(codes, {"RX"})
        has_execute == has_execute0 \/ AnyIn(codes, {"RX"})
        p1 == IF has_read THEN <<"Read">> ELSE <<>>
        p2 == IF has_write THEN Append(p1, "Write") ELSE p1
        p3 == IF (has_write \/ AnyIn(codes, {"M", "MODIFY"}))
                 /\ ~Contains(p2, "Change")
              THEN Append(p2, "Change") ELSE p2
        p4 == IF has_delete THEN Append(p3, "Delete") ELSE p3
        p5 == IF has_execute /\ ~Contains(p4, "List")
              THEN Append(p4, "List") ELSE p4
    IN  IF AnyIn(codes, {"F", "FC", "FULLCONTROL"}) THEN FullPhrase
        ELSE IF AnyIn(codes, {"M", "MODIFY"}) THEN FullPhrase
        ELSE IF p5 # <<>> THEN Join(p5, ", ") ELSE ""

\* Mutant: C (change) counted among the write codes.
ConvertToReadablePermissions_ChangeIsWrite(permission_codes) ==
    LET codes == [i \in 1..Len(permission_codes) |-> Upper(permission_codes[i])]
        has_read0 == AnyIn(codes, {"R", "RX", "RC", "GR", "RD"})
        has_write == AnyIn(codes, {"W", "WD", "AD", "WEA", "GW", "C"})
        has_execute0 == AnyIn(codes, {"RX", "X", "GE"})
        has_delete == AnyIn(codes, {"D", "DC", "DA"})
        has_read == has_read0 \/ AnyIn(codes, {"RX"})
        has_execute == has_execute0 \/ AnyIn(codes, {"RX"})
        p1 == IF has_read THEN <<"Read">> ELSE <<>>
        p2 == IF has_write THEN Append(p1, "Write") ELSE p1
        p3 == IF (has_write \/ AnyIn(codes, {"M", "MODIFY"}))
                 /\ ~Contains(p2, "Change")
              THEN Append(p2, "Change") ELSE p2
        p4 == IF has_delete THEN Append(p3, "Delete") ELSE p3
        p5 == IF (has_execute \/ has_read) /\ ~Contains(p4, "List")
              THEN Append(p4, "List") ELSE p4
    IN  IF AnyIn(codes, {"F", "FC", "FULLCONTROL"}) THEN FullPhrase
        ELSE IF AnyIn(codes, {"M", "MODIFY"}) THEN FullPhrase
        ELSE IF p5 # <<>> THEN Join(p5, ", ") ELSE ""

\* permission_code is ','.join(codes) of comma-free codes, which
\* permission_code.split(',') takes apart again: the operator takes the codes.
ConvertToReadablePermissions(permission_codes) ==
    LET codes == [i \in 1..Len(permission_codes) |-> Upper(permission_codes[i])]
        has_read0 == AnyIn(codes, {"R", "RX", "RC", "GR", "RD"})
        has_write == AnyIn(codes, {"W", "WD", "AD", "WEA", "GW"})
        has_execute0 == AnyIn(codes, {"RX", "X", "GE"})
        has_delete == AnyIn(codes, {"D", "DC", "DA"})
        has_read == has_read0 \/ AnyIn(codes, {"RX"})
        has_execute == has_execute0 \/ AnyIn(codes, {"RX"})
        p1 == IF has_read THEN <<"Read">> ELSE <<>>
        p2 == IF has_write THEN Append(p1, "Write") ELSE p1
        p3 == IF (has_write \/ AnyIn(codes, {"M", "MODIFY"}))
                 /\ ~Contains(p2, "Change")
              THEN Append(p2, "Change") ELSE p2
        p4 == IF has_delete THEN Append(p3, "Delete") ELSE p3
        p5 == IF (has_execute \/ has_read) /\ ~Contains(p4, "List")
              THEN Append(p4, "List") ELSE p4
    IN  IF AnyIn(codes, {"F", "FC", "FULLCONTROL"}) THEN FullPhrase
        ELSE IF AnyIn(codes, {"M", "MODIFY"}) THEN FullPhrase
        ELSE IF p5 # <<>> THEN Join(p5, ", ") ELSE ""

-----------------------------------------------------------------------------
(* The icacls line parser: the loop body of _scan_single_folder *)

\* re.findall(r'\(([^)]+)\)', s): left to right, non-overlapping; a match
\* starts at a "(" and runs to the next ")" with at least one character
\* between them; the group is everything between.
NextClose(toks, from) ==
    LET hits == {j \in from..Len(toks) : toks[j] = ")"}
    IN  IF hits = {} THEN 0
        ELSE CHOOSE j \in hits : \A k \in hits : j <= k

RECURSIVE FindAllFrom(_, _)
FindAllFrom(toks, i) ==
    IF i > Len(toks) THEN <<>>
    ELSE IF toks[i] # "(" THEN FindAllFrom(toks, i + 1)
    ELSE LET j == NextClose(toks, i + 1)
         IN  IF j = 0 \/ j = i + 1 THEN FindAllFrom(toks, i + 1)
             ELSE <<Concat(SubSeq(toks, i + 1, j - 1))>>
                      \o FindAllFrom(toks, j + 1)

ParenMatches(permission_part) == FindAllFrom(permission_part, 1)

\* Mutant: the collector also takes FULLCONTROL, which the converter knows.
PermissionCodeList_WithFullControl ==
    {"F", "M", "RX", "R", "W", "D", "C", "RC", "WD", "AD", "WEA", "REA",
     "X", "DC", "FULLCONTROL"}

PermissionCodeList ==
    {"F", "M", "RX", "R", "W", "D", "C", "RC", "WD", "AD", "WEA", "REA",
     "X", "DC"}

\* The text after the identity that the flags are extracted from.
PermissionPart(line, colon_paren_pos) ==
    SubSeq(line, colon_paren_pos + 2, Len(line))

\* Mutant: `'I' in match` for `match == 'I'`, true of OI, CI and IO too.
RECURSIVE ClassifyFlags_SubstringI(_, _)
ClassifyFlags_SubstringI(matches, acc) ==
    IF matches = <<>> THEN acc
    ELSE LET match == Head(matches)
             nxt == IF match \in {"I", "OI", "CI", "IO"}
                    THEN [acc EXCEPT !.inherited = TRUE]
                    ELSE IF match = "DENY"
                         THEN [acc EXCEPT !.access_type = "Deny"]
                    ELSE IF match \in PermissionCodeList
                         THEN [acc EXCEPT !.permission_codes = Append(@, match)]
                    ELSE acc
         IN  ClassifyFlags_SubstringI(Tail(matches), nxt)

\* The flag loop (for match in paren_matches).
RECURSIVE ClassifyFlags(_, _)
ClassifyFlags(matches, acc) ==
    IF matches = <<>> THEN acc
    ELSE LET match == Head(matches)
             nxt == IF match = "I" THEN [acc EXCEPT !.inherited = TRUE]
                    ELSE IF match = "DENY"
                         THEN [acc EXCEPT !.access_type = "Deny"]
                    ELSE IF match \in PermissionCodeList
                         THEN [acc EXCEPT !.permission_codes = Append(@, match)]
                    ELSE acc
         IN  ClassifyFlags(Tail(matches), nxt)

\* Mutant: `if identity:` for `if identity and readable_permissions:`.
EntryForCodes_NoReadableTest(normalized_path, identity, flags) ==
    IF flags.permission_codes = <<>> THEN <<>>
    ELSE IF identity # ""
         THEN <<PermissionEntry(normalized_path, identity,
                                ConvertToReadablePermissions(flags.permission_codes),
                                flags.access_type, flags.inherited)>>
         ELSE <<>>

\* if permission_codes: ... if identity and readable_permissions: append
EntryForCodes(normalized_path, identity, flags) ==
    IF flags.permission_codes = <<>> THEN <<>>
    ELSE LET readable_permissions ==
                 ConvertToReadablePermissions(flags.permission_codes)
         IN  IF identity # "" /\ readable_permissions # ""
             THEN <<PermissionEntry(normalized_path, identity,
                                    readable_permissions, flags.access_type,
                                    flags.inherited)>>
             ELSE <<>>

\* One iteration of `for i, line in enumerate(lines)`; i is 0-based.
ParseIcaclsLine(i, raw_line, normalized_path) ==
    LET line == Strip(raw_line)
        colon_paren_pos == FindColonParen(line)
    IN  IF line = <<>> \/ Contains(line, "Successfully processed")
           \/ Contains(line, "files processed")
        THEN <<>>
        ELSE IF i = 0 \/ StartsWith(line, normalized_path) THEN <<>>
        ELSE IF colon_paren_pos = 0 THEN <<>>
        ELSE IF ~(colon_paren_pos > 1) THEN <<>>
        ELSE LET identity == Concat(Strip(SubSeq(line, 1, colon_paren_pos - 1)))
                 paren_matches == ParenMatches(PermissionPart(line, colon_paren_pos))
             IN  IF paren_matches = <<>> THEN <<>>
                 ELSE EntryForCodes(normalized_path, identity,
                          ClassifyFlags(paren_matches,
                              [permission_codes |-> <<>>, inherited |-> FALSE,
                               access_type |-> "Allow"]))

RECURSIVE ParseIcaclsFrom(_, _, _)
ParseIcaclsFrom(lines, i, normalized_path) ==
    IF i >= Len(lines) THEN <<>>
    ELSE ParseIcaclsLine(i, lines[i + 1], normalized_path)
             \o ParseIcaclsFrom(lines, i + 1, normalized_path)

\* lines = result.stdout.split('\n'); for i, line in enumerate(lines): ...
ParseIcaclsOutput(lines, normalized_path) ==
    ParseIcaclsFrom(lines, 0, normalized_path)

-----------------------------------------------------------------------------
(* icacls output *)

Identities == {"BUILTIN\\Administrators", "DOMAIN\\jdoe", "NT AUTHORITY\\SYSTEM"}

\* What icacls can print in a group, and FULLCONTROL, which the converter
\* knows.
Flags == PermissionCodeList \cup {"I", "DENY", "OI", "CI", "IO", "FULLCONTROL"}

GroupSeqs == UNION {[1..n -> Flags] : n \in 1..MaxGroups}

RECURSIVE GroupTokens(_)
GroupTokens(groups) ==
    IF groups = <<>> THEN <<>>
    ELSE <<"(", Head(groups), ")">> \o GroupTokens(Tail(groups))

\* `   identity:(g1)(g2)...` as icacls prints the second and later ACEs.
AceLine(identity, groups) == <<" ", identity, ":">> \o GroupTokens(groups)

StatusLine == <<"Successfully processed", " ", "1 files; Failed processing 0 files">>

\* icacls prints the path and the first ACE on the first line, one ACE on
\* each further line, a blank line and the status line.
IcaclsStdout(path, first_ace, ace_lines) ==
    <<path \o first_ace>> \o ace_lines \o << <<>>, StatusLine, <<>> >>

HarnessPath == <<"C:", "\\", "data">>

-----------------------------------------------------------------------------
(* Parsing one ACE line *)

\* No call of scan_folder_permissions has been made.
ScanIdle ==
    /\ scan_pc = "idle"
    /\ folder_path = <<>>
    /\ include_subfolders = FALSE
    /\ tree = <<>>
    /\ subdirs = <<>>
    /\ next_dir = 1
    /\ permissions = <<>>
    /\ result = <<>>
    /\ os_calls = <<>>

\* No interruption was requested, nothing is being exported or converted.
NoInterruption == interruption_requested = FALSE
NoExport == csv = [pc |-> "off", permissions |-> <<>>, file |-> <<>>,
                   rows |-> <<>>]
NoConversion == conv = [pc |-> "off", codes |-> <<>>, phrase |-> ""]

\* The Port Listener and Speed Test tabs before the window builds them.
NetOff ==
    /\ port = [is_listening |-> FALSE, listening |-> FALSE,
               socket |-> "none", listen_thread |-> "none"]
    /\ speedtest = [pc |-> "unbuilt", speedtest_cli_available |-> "none",
                    test_running |-> FALSE, test_thread |-> "none",
                    stop_btn |-> FALSE, stopped |-> FALSE,
                    reported |-> "none"]
    /\ blocking_calls = {}

\* The services ServiceMonitorTab registers when it is built.  Of the two
\* default services one is modelled: the other, Cloudflare DNS, is taken
\* as removed by the user before anything else happens.
DefaultServices == {"Infrastructure_Google_DNS"}

\* The keys a service can be registered or tested under,
\* f"{category}_{name}" with spaces replaced: the default service and one
\* the user names in the form.
ServiceKeys == DefaultServices \cup {"Custom_web"}

\* ServicesTools as its constructor leaves it, before the tab registers
\* the default services.  A key that is not in the dict last_check_results
\* maps to "absent".
ServicesOff ==
    /\ services = {}
    /\ last_check_results = [key \in ServiceKeys |-> "absent"]
    /\ service_threads = <<>>
    /\ accesses = {}

\* No filter_permissions call is being followed.
NoFilter ==
    filt = [pc |-> "off", permissions |-> <<>>, show_ad_only |-> FALSE,
            is_ad |-> <<>>, filtered |-> <<>>]

\* No query of the directory was made.
NoQuery ==
    ad = [pc |-> "off", now |-> 0, entries |-> <<>>, users_data |-> <<>>,
          summary |-> [total |-> 0, expired |-> 0, expiring_soon |-> 0,
                       active |-> 0, never_expires |-> 0, disabled |-> 0]]

\* The AD password tab as ADPasswordTab.__init__ leaves it: no worker
\* (worker = 0 stands for None), the timer stopped, both buttons enabled.
AdTabConstructed ==
    adtab = [workers |-> <<>>, worker |-> 0, signals |-> <<>>,
             configured |-> FALSE, refresh_timer |-> FALSE,
             test_btn |-> TRUE, refresh_btn |-> TRUE, log |-> "none"]

MoreOff == NoFilter /\ NoQuery /\ AdTabConstructed

OtherTabsOff == NetOff /\ ServicesOff /\ MoreOff

\* The ACE line harness is not in use.
ParseOff ==
    /\ parse_pc = "off"
    /\ ace_identity = ""
    /\ ace_groups = <<>>
    /\ parsed = <<>>

\* The folder-permissions tab as PermissionsTab.__init__ leaves it.
TabConstructed ==
    /\ app = "running"
    /\ buttons = [scan_btn |-> TRUE, export_csv_btn |-> FALSE,
                  export_selected_csv_btn |-> FALSE,
                  export_json_btn |-> FALSE, clear_btn |-> FALSE]
    /\ show_groups_only = FALSE
    /\ folder_exists = TRUE
    /\ workers = <<>>
    /\ signals = <<>>
    /\ permissions_data = <<>>
    /\ results_table = <<>>

ParseInit ==
    /\ ScanIdle
    /\ TabConstructed
    /\ NoInterruption /\ NoExport /\ NoConversion /\ OtherTabsOff
    /\ TabConstructed
    /\ parse_pc = "input"
    /\ ace_identity \in Identities
    /\ ace_groups \in GroupSeqs
    /\ parsed = <<>>

ParseAce ==
    /\ parse_pc = "input"
    /\ parsed' = ParseIcaclsOutput(
                     IcaclsStdout(HarnessPath,
                                  AceLine("Everyone", <<"OI", "CI", "RX">>),
                                  <<AceLine(ace_identity, ace_groups)>>),
                     HarnessPath)
    /\ parse_pc' = "parsed"
    /\ UNCHANGED <<ace_identity, ace_groups, not_parse_vars>>

SpecParse == ParseInit /\ [][ParseAce]_vars

-----------------------------------------------------------------------------
(* Paths and the directory tree *)

PathSeparators == {"/", "\\"}

RECURSIVE Intersperse(_, _)
Intersperse(comps, sep) ==
    IF Len(comps) <= 1 THEN comps
    ELSE <<Head(comps), sep>> \o Intersperse(Tail(comps), sep)

\* os.path.normpath on Windows: separators become backslashes, empty and "."
\* components and a trailing separator go.
NormPath(path) ==
    Intersperse(SelectSeq(path, LAMBDA t : t \notin PathSeparators \cup {"."}),
                "\\")

\* os.path.join(root, dir_name) for a root without a trailing separator.
PathJoin(root, dir_name) == root \o <<"\\", dir_name>>

\* The folder the user can name, as typed.
RootPaths == {<<"C:", "\\", "data">>, <<"C:", "/", "data", "/">>}

SubdirIds == 1..MaxSubdirs

\* parent[d] is the directory holding subdirectory d; 0 is the root.  Two
\* shapes: every subdirectory directly below the root, or each inside the
\* one before it.
Trees == {[d \in SubdirIds |-> 0], [d \in SubdirIds |-> d - 1]}

DirName(d) == "sub" \o ToString(d)

RECURSIVE DirPath(_, _, _)
DirPath(root, t, d) ==
    IF d = 0 THEN root
    ELSE NormPath(PathJoin(DirPath(root, t, t[d]), DirName(d)))

RECURSIVE SortedIds(_)
SortedIds(ids) ==
    IF ids = {} THEN <<>>
    ELSE LET lo == CHOOSE d \in ids : \A e \in ids : d <= e
         IN  <<lo>> \o SortedIds(ids \ {lo})

ChildrenOf(t, d) == SortedIds({c \in SubdirIds : t[c] = d})

\* os.walk(top), top-down: the directories named in the `dirs` of each
\* visited directory, in the order the walk yields them.
RECURSIVE WalkFrom(_, _)
RECURSIVE WalkEach(_, _)
WalkFrom(t, d) == ChildrenOf(t, d) \o WalkEach(t, ChildrenOf(t, d))
WalkEach(t, ds) ==
    IF ds = <<>> THEN <<>>
    ELSE WalkFrom(t, Head(ds)) \o WalkEach(t, Tail(ds))

\* subdirs = [normalized_path] + every directory of the walk
WalkedSubdirs(normalized_path, t) ==
    LET ids == WalkFrom(t, 0)
    IN  <<normalized_path>>
            \o [i \in 1..Len(ids) |-> DirPath(normalized_path, t, ids[i])]

-----------------------------------------------------------------------------
(* The PowerShell queries *)

\* One access rule of a folder's ACL as Get-Acl reports it; rights holds the
\* FileSystemRights tests of the script that come out non-zero.
RuleAdmins ==
    [identity |-> "BUILTIN\\Administrators",
     rights |-> {"Read", "Write", "Modify", "Delete", "ReadAndExecute"},
     type |-> "Allow", inherited |-> TRUE]

RuleDenyRead ==
    [identity |-> "DOMAIN\\jdoe", rights |-> {"Read", "ReadAndExecute"},
     type |-> "Deny", inherited |-> FALSE]

RuleSynchronize ==
    [identity |-> "Everyone", rights |-> {}, type |-> "Allow",
     inherited |-> FALSE]

\* The ACLs Get-Acl can return for a folder.
PsAcls == {<<RuleSynchronize, RuleAdmins, RuleDenyRead>>, <<RuleSynchronize>>}

\* The $permissions list of the script and its -join ", ".
PsPermString(rule) ==
    LET a == IF "Read" \in rule.rights THEN <<"Read">> ELSE <<>>
        b == IF "Write" \in rule.rights THEN Append(a, "Write") ELSE a
        c == IF "Modify" \in rule.rights THEN Append(b, "Change") ELSE b
        d == IF "Delete" \in rule.rights THEN Append(c, "Delete") ELSE c
        e == IF "ReadAndExecute" \in rule.rights THEN Append(d, "List") ELSE d
    IN  e

PsBool(b) == IF b THEN "True" ELSE "False"

\* foreach ($access in $acl.Access) { ... Write-Output "path|identity|..." }
RECURSIVE PsAclLines(_, _)
PsAclLines(path, acl) ==
    IF acl = <<>> THEN <<>>
    ELSE LET access == Head(acl)
             perms == PsPermString(access)
         IN  (IF Len(perms) > 0
              THEN << path \o <<"|", access.identity, "|", Join(perms, ", "),
                               "|", access.type, "|",
                               PsBool(access.inherited)>> >>
              ELSE <<>>)
             \o PsAclLines(path, Tail(acl))

\* try { $acl = Get-Acl ... } catch { }: a folder whose ACL cannot be read
\* prints nothing.
PsFolderLines(path, denied, acl) ==
    IF denied THEN <<>> ELSE PsAclLines(path, acl)

\* str.split('|')
RECURSIVE SplitPipe(_, _)
SplitPipe(toks, cur) ==
    IF toks = <<>> THEN <<cur>>
    ELSE IF Head(toks) = "|" THEN <<cur>> \o SplitPipe(Tail(toks), <<>>)
    ELSE SplitPipe(Tail(toks), Append(cur, Head(toks)))

\* str.lower() on what the script prints for IsInherited.
Lower(str) ==
    CASE str = "True" -> "true"
      [] str = "False" -> "false"
      [] OTHER -> str

\* The body of `for line in lines:` shared by both PowerShell parsers.
PsParseLine(raw_line) ==
    LET line == Strip(raw_line)
        parts == SplitPipe(line, <<>>)
    IN  IF ~(Contains(line, "|") /\ line # <<>>) THEN <<>>
        ELSE IF ~(Len(parts) >= 5) THEN <<>>
        ELSE LET path == Strip(parts[1])
                 identity == Concat(Strip(parts[2]))
                 permission == Concat(Strip(parts[3]))
                 access_type == Concat(Strip(parts[4]))
                 inherited == Lower(Concat(Strip(parts[5]))) = "true"
             IN  IF permission # ""
                 THEN <<PermissionEntry(path, identity, permission,
                                        access_type, inherited)>>
                 ELSE <<>>

RECURSIVE PsParseLines(_)
PsParseLines(lines) ==
    IF lines = <<>> THEN <<>>
    ELSE PsParseLine(Head(lines)) \o PsParseLines(Tail(lines))

\* One interaction with the operating system, as the scan log keeps it.
OsCall(cmd, target, recurse, outcome) ==
    [cmd |-> cmd, target |-> target, recurse |-> recurse, outcome |-> outcome]

\* What running `powershell -Command <script>` can do: raise, or end with a
\* return code after the script has read the ACL `acl` (denied: Get-Acl
\* threw and the script wrote an error).
PsOutcomes ==
    {[kind |-> "raise", returncode |-> 1, denied |-> TRUE, acl |-> <<>>]}
    \cup {[kind |-> "ran", returncode |-> 1, denied |-> TRUE, acl |-> <<>>]}
    \cup {[kind |-> "ran", returncode |-> 0, denied |-> FALSE, acl |-> a] :
              a \in PsAcls}

PsOutcomeName(ps, stdout) ==
    IF ps.kind = "raise" THEN "raise"
    ELSE IF ps.returncode # 0 THEN "nonzero"
    ELSE IF stdout = <<>> THEN "empty"
    ELSE "ok"

\* _scan_single_folder_powershell
ScanSingleFolderPowershell(path, ps) ==
    LET normalized_path == NormPath(path)
        stdout == IF ps.kind = "raise" THEN <<>>
                  ELSE PsFolderLines(normalized_path, ps.denied, ps.acl)
        call == OsCall("powershell", normalized_path, FALSE,
                       PsOutcomeName(ps, stdout))
    IN  IF ps.kind = "raise" THEN [permissions |-> <<>>, calls |-> <<call>>]
        ELSE IF ps.returncode = 0 /\ stdout # <<>>
             THEN [permissions |-> PsParseLines(stdout), calls |-> <<call>>]
             ELSE [permissions |-> <<>>, calls |-> <<call>>]

-----------------------------------------------------------------------------
(* _scan_single_folder and _scan_with_powershell *)

\* The ACE lines icacls prints after the first line in the scans modelled.
ScanAceLists ==
    { <<AceLine("DOMAIN\\jdoe", <<"OI", "CI", "F">>)>>,
      <<AceLine("DOMAIN\\jdoe", <<"OI", "C">>)>>,
      <<AceLine("NT AUTHORITY\\SYSTEM", <<"I", "M">>),
        AceLine("DOMAIN\\jdoe", <<"DENY", "R">>)>> }

\* What the icacls step of _scan_single_folder can meet: the path is gone
\* (os.path.exists is false), subprocess.run raises, icacls ends with a
\* non-zero return code, or it prints the ACL.
IcaclsOutcomes ==
    {[kind |-> k, returncode |-> 1, aces |-> <<>>] : k \in {"missing", "raise", "ran"}}
    \cup {[kind |-> "ran", returncode |-> 0, aces |-> a] : a \in ScanAceLists}

IcaclsFails(ic) == ic.kind = "raise" \/ (ic.kind = "ran" /\ ic.returncode # 0)

\* The PowerShell outcome matters only when the fallback runs.
FallbackOutcomes(ic) ==
    IF IcaclsFails(ic) THEN PsOutcomes
    ELSE {[kind |-> "raise", returncode |-> 1, denied |-> TRUE, acl |-> <<>>]}

\* Mutant: a non-zero return code of icacls returns the empty list, with no
\* fallback.
ScanSingleFolder_NoFallbackOnNonzero(path, ic, ps) ==
    LET normalized_path == NormPath(path)
        exists == OsCall("exists", normalized_path, FALSE,
                         IF ic.kind = "missing" THEN "missing" ELSE "exists")
        icacls == OsCall("icacls", normalized_path, FALSE,
                         IF ic.kind = "raise" THEN "raise"
                         ELSE IF ic.returncode # 0 THEN "nonzero" ELSE "ok")
        fallback == ScanSingleFolderPowershell(normalized_path, ps)
    IN  IF ic.kind = "missing"
        THEN [permissions |-> <<>>, calls |-> <<exists>>]
        ELSE IF ic.kind = "raise"
        THEN [permissions |-> fallback.permissions,
              calls |-> <<exists, icacls>> \o fallback.calls]
        ELSE IF ic.returncode # 0
        THEN [permissions |-> <<>>, calls |-> <<exists, icacls>>]
        ELSE [permissions |->
                  ParseIcaclsOutput(
                      IcaclsStdout(normalized_path,
                                   AceLine("BUILTIN\\Administrators", <<"F">>),
                                   ic.aces),
                      normalized_path),
              calls |-> <<exists, icacls>>]

\* _scan_single_folder
ScanSingleFolder(path, ic, ps) ==
    LET normalized_path == NormPath(path)
        exists == OsCall("exists", normalized_path, FALSE,
                         IF ic.kind = "missing" THEN "missing" ELSE "exists")
        icacls == OsCall("icacls", normalized_path, FALSE,
                         IF ic.kind = "raise" THEN "raise"
                         ELSE IF ic.returncode # 0 THEN "nonzero" ELSE "ok")
        fallback == ScanSingleFolderPowershell(normalized_path, ps)
    IN  IF ic.kind = "missing"
        THEN [permissions |-> <<>>, calls |-> <<exists>>]
        ELSE IF ic.kind = "raise"
        THEN [permissions |-> fallback.permissions,
              calls |-> <<exists, icacls>> \o fallback.calls]
        ELSE IF ic.returncode # 0
        THEN [permissions |-> fallback.permissions,
              calls |-> <<exists, icacls>> \o fallback.calls]
        ELSE [permissions |->
                  ParseIcaclsOutput(
                      IcaclsStdout(normalized_path,
                                   AceLine("BUILTIN\\Administrators", <<"F">>),
                                   ic.aces),
                      normalized_path),
              calls |-> <<exists, icacls>>]

RECURSIVE PsTreeLines(_, _, _)
PsTreeLines(folders, denied, acl) ==
    IF folders = <<>> THEN <<>>
    ELSE PsFolderLines(Head(folders), denied, acl)
             \o PsTreeLines(Tail(folders), denied, acl)

\* $folders = Get-ChildItem -Recurse -Directory; $folders += Get-Item root;
\* $path = $folder.FullName
PsFolders(path, t) ==
    LET walked == WalkedSubdirs(NormPath(path), t)
    IN  Tail(walked) \o <<Head(walked)>>

\* _scan_with_powershell
ScanWithPowershell(path, with_subfolders, t, ps) ==
    LET stdout == IF ps.kind = "raise" THEN <<>>
                  ELSE IF with_subfolders
                       THEN PsTreeLines(PsFolders(path, t), ps.denied, ps.acl)
                       ELSE PsFolderLines(path, ps.denied, ps.acl)
        call == OsCall("powershell", path, with_subfolders,
                       PsOutcomeName(ps, stdout))
    IN  IF ps.kind = "raise" THEN [permissions |-> <<>>, calls |-> <<call>>]
        ELSE IF ps.returncode = 0
             THEN [permissions |-> PsParseLines(stdout), calls |-> <<call>>]
             ELSE [permissions |-> <<>>, calls |-> <<call>>]

-----------------------------------------------------------------------------
(* scan_folder_permissions *)

\* Mutant: the walk is made whatever include_subfolders says.
WalksSubfolders_Always(with_subfolders) == TRUE

\* `if include_subfolders:` of scan_folder_permissions
WalksSubfolders(with_subfolders) == with_subfolders

\* The call, up to the end of the directory walk.
ScanFolderBegin ==
    /\ scan_pc \in {"idle", "returned"}
    /\ \E path \in RootPaths, with_subfolders \in BOOLEAN, t \in Trees :
          LET normalized_path == NormPath(path)
          IN  /\ folder_path' = path
              /\ include_subfolders' = with_subfolders
              /\ tree' = t
              /\ IF WalksSubfolders(with_subfolders)
                 THEN /\ subdirs' = WalkedSubdirs(normalized_path, t)
                      /\ os_calls' = <<OsCall("walk", normalized_path, TRUE, "ok")>>
                      /\ scan_pc' = "loop"
                 ELSE /\ subdirs' = <<>>
                      /\ os_calls' = <<>>
                      /\ scan_pc' = "single"
    /\ permissions' = <<>>
    /\ next_dir' = 1
    /\ result' = <<>>
    /\ UNCHANGED not_scan_vars

\* Mutant: `permissions = dir_permissions` for permissions.extend(...).
Extend_Assign(list, items) == items

\* list.extend(items)
Extend(list, items) == list \o items

\* Mutant: the loop tests the worker's interruption flag before each
\* directory and ends when it is set.
ScanNextDirectory_UnlessInterrupted ==
    /\ scan_pc = "loop"
    /\ next_dir <= Len(subdirs)
    /\ IF interruption_requested
       THEN /\ scan_pc' = "scanned"
            /\ UNCHANGED <<permissions, os_calls, next_dir>>
       ELSE /\ \E ic \in IcaclsOutcomes : \E ps \in FallbackOutcomes(ic) :
                  LET dir_permissions ==
                          ScanSingleFolder(subdirs[next_dir], ic, ps)
                  IN  /\ permissions' =
                             Extend(permissions, dir_permissions.permissions)
                      /\ os_calls' = os_calls \o dir_permissions.calls
            /\ next_dir' = next_dir + 1
            /\ scan_pc' = IF next_dir = Len(subdirs) THEN "scanned" ELSE "loop"
    /\ UNCHANGED <<folder_path, include_subfolders, tree, subdirs, result,
                   not_scan_vars>>

\* Mutant: the loop reports "Scanning: <directory>" to the UI thread after
\* each directory.
ScanNextDirectory_ReportsProgress ==
    /\ scan_pc = "loop"
    /\ next_dir <= Len(subdirs)
    /\ \E ic \in IcaclsOutcomes : \E ps \in FallbackOutcomes(ic) :
          LET dir_permissions == ScanSingleFolder(subdirs[next_dir], ic, ps)
          IN  /\ permissions' = Extend(permissions, dir_permissions.permissions)
              /\ os_calls' = os_calls \o dir_permissions.calls
    /\ next_dir' = next_dir + 1
    /\ scan_pc' = IF next_dir = Len(subdirs) THEN "scanned" ELSE "loop"
    /\ signals' = Append(signals,
                         [signal |-> "progress", worker |-> Len(workers),
                          arg |-> <<"Scanning: ">> \o subdirs[next_dir]])
    /\ UNCHANGED <<folder_path, include_subfolders, tree, subdirs, result,
                   parse_vars, app, buttons, show_groups_only, folder_exists,
                   workers, permissions_data, results_table, rest_vars>>

\* One iteration of `for directory in subdirs:`.
ScanNextDirectory ==
    /\ scan_pc = "loop"
    /\ next_dir <= Len(subdirs)
    /\ \E ic \in IcaclsOutcomes : \E ps \in FallbackOutcomes(ic) :
          LET dir_permissions == ScanSingleFolder(subdirs[next_dir], ic, ps)
          IN  /\ permissions' = Extend(permissions, dir_permissions.permissions)
              /\ os_calls' = os_calls \o dir_permissions.calls
    /\ next_dir' = next_dir + 1
    /\ scan_pc' = IF next_dir = Len(subdirs) THEN "scanned" ELSE "loop"
    /\ UNCHANGED <<folder_path, include_subfolders, tree, subdirs, result,
                   not_scan_vars>>

\* permissions = _scan_single_folder(normalized_path)
ScanOnlyFolder ==
    /\ scan_pc = "single"
    /\ \E ic \in IcaclsOutcomes : \E ps \in FallbackOutcomes(ic) :
          LET only == ScanSingleFolder(NormPath(folder_path), ic, ps)
          IN  /\ permissions' = only.permissions
              /\ os_calls' = os_calls \o only.calls
    /\ scan_pc' = "scanned"
    /\ UNCHANGED <<folder_path, include_subfolders, tree, subdirs, next_dir,
                   result, not_scan_vars>>

\* An exception escapes the try block: the except clause returns what
\* _scan_with_powershell(folder_path, include_subfolders) gives.
ScanRaise ==
    /\ scan_pc \in {"loop", "single"}
    /\ \E ps \in PsOutcomes :
          LET alt == ScanWithPowershell(folder_path, include_subfolders, tree, ps)
          IN  /\ result' = alt.permissions
              /\ os_calls' = os_calls \o alt.calls
    /\ scan_pc' = "returned"
    /\ UNCHANGED <<folder_path, include_subfolders, tree, subdirs, next_dir,
                   permissions, not_scan_vars>>

\* return permissions
ScanReturn ==
    /\ scan_pc = "scanned"
    /\ result' = permissions
    /\ scan_pc' = "returned"
    /\ UNCHANGED <<folder_path, include_subfolders, tree, subdirs, next_dir,
                   permissions, os_calls, not_scan_vars>>

Init ==
    /\ ScanIdle
    /\ TabConstructed
    /\ ParseOff
    /\ NoInterruption /\ NoExport /\ NoConversion /\ OtherTabsOff

Next ==
    \/ ScanFolderBegin
    \/ ScanNextDirectory
    \/ ScanOnlyFolder
    \/ ScanRaise
    \/ ScanReturn

Spec == Init /\ [][Next]_vars

-----------------------------------------------------------------------------
(* Properties of the ACE line parser (checked under SpecParse) *)

HasGroup(flag) == \E i \in 1..Len(ace_groups) : ace_groups[i] = flag

\* The permission-code set the specification lists.
SpecCodeSet ==
    {"F", "M", "RX", "R", "W", "D", "C", "RC", "WD", "AD", "WEA", "REA",
     "X", "DC"}

\* C1: every ACE line whose flags include F or FULLCONTROL yields a record
\* whose permission is exactly "Read, Write, Change, Delete, List", whatever
\* the other codes and wherever F stands, the first group included.
C1_FullControlGivesFullPhrase ==
    (parse_pc = "parsed" /\ (HasGroup("F") \/ HasGroup("FULLCONTROL")))
        => (Len(parsed) = 1 /\ parsed[1].permission = FullPhrase)

\* C2: the line `identity:(RX)` yields one record with permission
\* "Read, List".
C2_SingleRXGivesReadList ==
    (parse_pc = "parsed" /\ ace_groups = <<"RX">>)
        => (Len(parsed) = 1 /\ parsed[1].permission = "Read, List")

\* C3: for every ACE line that yields a record, inherited is true exactly
\* when the flag I occurs among the groups, at any position.
C3_InheritedIffFlagI ==
    (parse_pc = "parsed" /\ parsed # <<>>)
        => (parsed[1].inherited <=> HasGroup("I"))

\* C4: for every ACE line that yields a record, access_type is "Deny"
\* exactly when the flag DENY occurs among the groups, and "Allow"
\* otherwise.
C4_DenyIffFlagDeny ==
    (parse_pc = "parsed" /\ parsed # <<>>)
        => /\ parsed[1].access_type \in {"Allow", "Deny"}
           /\ (parsed[1].access_type = "Deny" <=> HasGroup("DENY"))

\* C5: the line `BUILTIN\Administrators:(OI)(CI)(F)` yields exactly one
\* record: that identity, the full phrase, Allow, not inherited.
C5_AdministratorsExample ==
    (parse_pc = "parsed" /\ ace_identity = "BUILTIN\\Administrators"
        /\ ace_groups = <<"OI", "CI", "F">>)
        => parsed = <<PermissionEntry(HarnessPath, "BUILTIN\\Administrators",
                                      FullPhrase, "Allow", FALSE)>>

C5_Witness ==
    /\ parse_pc = "parsed"
    /\ ace_identity = "BUILTIN\\Administrators"
    /\ ace_groups = <<"OI", "CI", "F">>
    /\ Len(parsed) = 1

\* C6: an ACE line none of whose groups is a code of the permission-code
\* set yields zero records.
C6_NoCodeNoRecord ==
    (parse_pc = "parsed"
        /\ \A i \in 1..Len(ace_groups) : ace_groups[i] \notin SpecCodeSet)
        => parsed = <<>>

C6_Witness ==
    /\ parse_pc = "parsed"
    /\ ace_groups = <<"OI", "CI">>
    /\ parsed = <<>>

\* The flags the loop over paren_matches would hold had it seen every
\* group written on the line.
FlagsOfAllGroups ==
    ClassifyFlags(ace_groups, [permission_codes |-> <<>>, inherited |-> FALSE,
                               access_type |-> "Allow"])

\* C18 as claimed: every parenthesized group of the line is classified, the
\* first one included, so the result is the one the flags of all the groups
\* give.
C18_EveryGroupClassified ==
    parse_pc = "parsed"
        => parsed = EntryForCodes(HarnessPath, ace_identity, FlagsOfAllGroups)

\* The codes the parser collected from the line: the groups that are in the
\* permission-code set, of the groups re.findall matched, which are the
\* groups after the first.
CollectedCodes ==
    SelectSeq(Tail(ace_groups), LAMBDA group : group \in SpecCodeSet)

\* C19 as claimed: a line with at least one collected code emits exactly
\* one record, also when the only collected codes are C or REA.
C19_OneEntryPerCollectedLine ==
    (parse_pc = "parsed" /\ CollectedCodes # <<>>) => Len(parsed) = 1

\* C19 amended: a line emits exactly one record when some collected code is
\* other than C and REA, and no record otherwise.
C19_OneEntryUnlessOnlyChangeOrRea ==
    parse_pc = "parsed"
        => Len(parsed) =
               IF \E i \in 1..Len(CollectedCodes) :
                      CollectedCodes[i] \notin {"C", "REA"}
               THEN 1 ELSE 0

C19_Witness ==
    /\ parse_pc = "parsed"
    /\ ace_groups = <<"OI", "C", "REA">>
    /\ parsed = <<>>

-----------------------------------------------------------------------------
(* Properties of the scan driver (checked under Spec) *)

IsPrefix(s1, s2) == Len(s1) <= Len(s2) /\ SubSeq(s2, 1, Len(s1)) = s1

IcaclsFailedAt(calls, i) ==
    calls[i].cmd = "icacls" /\ calls[i].outcome \in {"raise", "nonzero"}

FallbackRanAfter(calls, i) ==
    /\ i < Len(calls)
    /\ calls[i + 1].cmd = "powershell"
    /\ calls[i + 1].target = calls[i].target
    /\ ~calls[i + 1].recurse

\* C7: every PermissionEntry a scan holds or returns has a non-empty
\* permission string, whichever of the three paths created it.
C7_PermissionNeverEmpty ==
    /\ \A i \in 1..Len(permissions) : permissions[i].permission # ""
    /\ \A i \in 1..Len(result) : result[i].permission # ""

C7_Witness ==
    /\ scan_pc = "returned"
    /\ \E i \in 1..Len(os_calls) :
          os_calls[i].cmd = "icacls" /\ os_calls[i].outcome = "ok"
    /\ \E i \in 1..Len(os_calls) :
          os_calls[i].cmd = "powershell" /\ os_calls[i].outcome = "ok"
    /\ \E i \in 1..Len(result) : result[i].identity = "DOMAIN\\jdoe"
    /\ \E i \in 1..Len(result) : result[i].identity = "BUILTIN\\Administrators"

\* C8: with include_subfolders false only the root is queried: no walk, no
\* recursive query, no query of another directory, on the normal path and
\* on the exception path, and every record's path names the root.
C8_OnlyRootWithoutSubfolders ==
    (scan_pc # "idle" /\ ~include_subfolders)
        => /\ \A i \in 1..Len(os_calls) :
                 /\ os_calls[i].cmd # "walk"
                 /\ ~os_calls[i].recurse
                 /\ NormPath(os_calls[i].target) = NormPath(folder_path)
           /\ \A i \in 1..Len(permissions) :
                 NormPath(permissions[i].path) = NormPath(folder_path)
           /\ \A i \in 1..Len(result) :
                 NormPath(result[i].path) = NormPath(folder_path)

C8_Witness ==
    /\ scan_pc = "returned"
    /\ ~include_subfolders
    /\ Len(os_calls) = 1
    /\ os_calls[1].cmd = "powershell"
    /\ Len(result) = 2

\* C9 as claimed: whenever icacls fails for a directory - non-zero return
\* code, exception, or the path does not exist - the PowerShell fallback is
\* run for that directory.
C9_FallbackOnEveryFailure ==
    \A i \in 1..Len(os_calls) :
        (IcaclsFailedAt(os_calls, i)
            \/ (os_calls[i].cmd = "exists" /\ os_calls[i].outcome = "missing"))
        => FallbackRanAfter(os_calls, i)

\* C9 as amended: whenever the icacls invocation fails - non-zero return
\* code or exception - the PowerShell fallback is run for that directory
\* before the directory's result is added.
C9_FallbackOnIcaclsFailure ==
    \A i \in 1..Len(os_calls) :
        IcaclsFailedAt(os_calls, i) => FallbackRanAfter(os_calls, i)

C9_Witness ==
    /\ \E i \in 1..Len(os_calls) :
          os_calls[i].cmd = "icacls" /\ os_calls[i].outcome = "nonzero"
          /\ FallbackRanAfter(os_calls, i)
    /\ \E i \in 1..Len(os_calls) :
          os_calls[i].cmd = "icacls" /\ os_calls[i].outcome = "raise"
          /\ FallbackRanAfter(os_calls, i)

\* The step scans a directory of the loop for which icacls and the
\* PowerShell fallback both fail.
BothFailedStep ==
    /\ scan_pc = "loop"
    /\ Len(os_calls') = Len(os_calls) + 3
    /\ IcaclsFailedAt(os_calls', Len(os_calls) + 2)
    /\ os_calls'[Len(os_calls) + 3].cmd = "powershell"
    /\ os_calls'[Len(os_calls) + 3].outcome \in {"raise", "nonzero"}

\* C10: in a multi-directory scan a directory for which icacls and the
\* fallback both fail adds no record and the loop goes on to the next
\* directory; no step of the loop loses a record accumulated before, and
\* the list returned after the loop holds them all.
C10_FailedDirectoryKeepsScan ==
    [][ /\ BothFailedStep
            => /\ permissions' = permissions
               /\ next_dir' = next_dir + 1
               /\ scan_pc' = IF next_dir < Len(subdirs) THEN "loop" ELSE "scanned"
        /\ (scan_pc = "loop" /\ scan_pc' \in {"loop", "scanned"})
            => IsPrefix(permissions, permissions')
        /\ (scan_pc = "scanned" /\ scan_pc' = "returned")
            => result' = permissions ]_vars

C10_Witness ==
    /\ scan_pc = "returned"
    /\ include_subfolders
    /\ Len(os_calls) >= 8
    /\ os_calls[3].cmd = "icacls" /\ os_calls[3].outcome = "ok"
    /\ IcaclsFailedAt(os_calls, 5)
    /\ os_calls[6].cmd = "powershell" /\ os_calls[6].outcome \in {"raise", "nonzero"}
    /\ os_calls[7].cmd = "exists" /\ os_calls[8].cmd = "icacls"
    /\ os_calls[8].outcome = "ok"
    /\ Len(result) >= 2
    /\ result[1].path = NormPath(folder_path)
    /\ result[Len(result)].path # NormPath(folder_path)

-----------------------------------------------------------------------------
(* The folder-permissions tab and its scan workers                         *)
(* (permissions_tab.py, ScanWorker and PermissionsTools of                 *)
(* permissions_tools.py).  Handlers of the UI thread are atomic; a worker  *)
(* thread advances one iteration of its loop at a time: what it calls      *)
(* shares nothing with other threads.  Label texts, the progress bar       *)
(* and the log are not modelled, nor are the progress signals that only    *)
(* change the status label ("Path accessible", "Found N"); the search      *)
(* filter field stays empty.  The locals of a call or thread that has      *)
(* returned are cleared.                                                   *)

MaxScans == 2  \* ScanWorker objects created in one session

\* The folder the scans of this session are made of, and what the user can
\* have in the path field when a scan is triggered.
TabRoot == <<"C:", "\\", "data">>
PathTexts ==
    {<<>>, <<" ">>, <<"C:", "/", "data", "/">>, <<" ", "C:", "\\", "data", " ">>}

\* os.path.exists for the paths above
PathExists(path) == folder_exists /\ path = TabRoot

EveryoneId == <<"Everyone">>
AdministratorsId == <<"BUILTIN", "\\", "Administrators">>

\* The records one directory can contribute.
DirectoryRecords(directory) ==
    <<PermissionEntry(directory, EveryoneId, "Read, List", "Allow", TRUE),
      PermissionEntry(directory, AdministratorsId, FullPhrase, "Allow", FALSE)>>

\* What scan_folder_permissions(path, with_subfolders) can return to the
\* worker: nothing, or the records of the directories it visits.
ScanResults(path, with_subfolders) ==
    {<<>>,
     IF with_subfolders
     THEN DirectoryRecords(path) \o DirectoryRecords(PathJoin(path, "reports"))
     ELSE DirectoryRecords(path)}

\* str.upper() on the tokens identities are made of.
UpperName(tok) ==
    CASE tok = "Everyone" -> "EVERYONE"
      [] tok = "Administrators" -> "ADMINISTRATORS"
      [] tok = "Domain" -> "DOMAIN"
      [] tok = "jdoe" -> "JDOE"
      [] OTHER -> tok

\* `indicator in text` for token sequences
Within(indicator, text) ==
    \E i \in 1..(Len(text) - Len(indicator) + 1) :
        SubSeq(text, i, i + Len(indicator) - 1) = indicator

\* Mutant: the list without its last indicator, the bare backslash.
ad_indicators_NamedOnly ==
    {<<"DOMAIN", "\\">>, <<"BUILTIN", "\\">>, <<"\\", "Domain">>}

ad_indicators ==
    {<<"DOMAIN", "\\">>, <<"BUILTIN", "\\">>, <<"\\", "Domain">>, <<"\\">>}

\* PermissionScanner.is_ad_group
is_ad_group(identity) ==
    LET upper == [i \in 1..Len(identity) |-> UpperName(identity[i])]
    IN  \E indicator \in ad_indicators : Within(indicator, upper)

\* PermissionsTools.filter_permissions with an empty filter_text
filter_permissions(perms, show_ad_only) ==
    IF show_ad_only
    THEN SelectSeq(perms, LAMBDA p : is_ad_group(p.identity))
    ELSE perms

\* PermissionsTab.apply_filter: the rows of the table afterwards
apply_filter(data, table, show_ad_only) ==
    IF data = <<>> THEN table ELSE filter_permissions(data, show_ad_only)

\* ScanWorker.__init__; pc is the position of run(): "loop" at the head of
\* `for path in self.paths`, "finished" when run() has returned;
\* "unstarted" before start().
ScanWorker(paths, with_subfolders) ==
    [pc |-> "unstarted", paths |-> paths,
     include_subfolders |-> with_subfolders, next_path |-> 1,
     all_permissions |-> <<>>]

Signal(name, worker, arg) == [signal |-> name, worker |-> worker, arg |-> arg]

\* A ScanWorker whose thread is executing run().
Running(w) == workers[w].pc = "loop"

\* PermissionsTools.scan_worker refers to the worker created last.
CurrentWorkerRunning == workers # <<>> /\ Running(Len(workers))

\* Mutant: the handler appends the delivered list to the one it holds.
SetPermissionsData_Extend(held, delivered) == held \o delivered

\* `self.permissions_data = permissions`
SetPermissionsData(held, delivered) == delivered

\* Mutant: the worker is given the text of the path field.
WorkerPaths_AsTyped(text) == <<Strip(text)>>

\* `[normalized_path]`, the paths start_scan gives the worker
WorkerPaths(text) == <<NormPath(Strip(text))>>

\* PermissionsTab.start_scan with `text` in the path field.  Rebinding
\* scan_worker while the previous QThread is executing destroys a running
\* QThread: Qt either ends the process or, if the wrapper outlives the
\* rebinding, both threads run.
start_scan(text) ==
    LET path == Strip(text)
        normalized_path == NormPath(path)
    IN  IF path = <<>> \/ ~PathExists(normalized_path)
        THEN UNCHANGED <<app, buttons, workers, signals>>
        ELSE /\ Len(workers) < MaxScans
             /\ buttons' = [buttons EXCEPT !.scan_btn = FALSE]
             /\ \E with_subfolders \in BOOLEAN :
                  LET worker == ScanWorker(WorkerPaths(text), with_subfolders)
                  IN  \/ /\ workers' =
                              Append(workers, [worker EXCEPT !.pc = "loop"])
                         /\ app' = app
                      \/ /\ CurrentWorkerRunning
                         /\ workers' = Append(workers, worker)
                         /\ app' = "aborted"
             /\ UNCHANGED signals

\* scan_btn.clicked: only an enabled button emits clicked.
ClickStartScan ==
    /\ app = "running"
    /\ buttons.scan_btn
    /\ \E text \in PathTexts : start_scan(text)
    /\ UNCHANGED <<show_groups_only, folder_exists, permissions_data,
                   results_table, not_tab_vars>>

\* path_input.returnPressed: the path field is enabled at all times.
PressEnterInPathField ==
    /\ app = "running"
    /\ \E text \in PathTexts : start_scan(text)
    /\ UNCHANGED <<show_groups_only, folder_exists, permissions_data,
                   results_table, not_tab_vars>>

\* show_groups_only_cb.stateChanged -> apply_filter
ToggleShowGroupsOnly ==
    /\ app = "running"
    /\ show_groups_only' = ~show_groups_only
    /\ results_table' =
           apply_filter(permissions_data, results_table, ~show_groups_only)
    /\ UNCHANGED <<app, buttons, folder_exists, workers, signals,
                   permissions_data, not_tab_vars>>

\* Mutant: the confirmed clear empties the data and the table and leaves
\* the buttons as they were.
ClickClear_KeepsButtons ==
    /\ app = "running"
    /\ buttons.clear_btn
    /\ \E reply \in {"Yes", "No"} :
          IF reply = "Yes"
          THEN /\ permissions_data' = <<>>
               /\ results_table' = <<>>
               /\ UNCHANGED buttons
          ELSE UNCHANGED <<permissions_data, results_table, buttons>>
    /\ UNCHANGED <<app, show_groups_only, folder_exists, workers, signals,
                   not_tab_vars>>

\* PermissionsTab.clear_results; the user answers the question box.
ClickClear ==
    /\ app = "running"
    /\ buttons.clear_btn
    /\ \E reply \in {"Yes", "No"} :
          IF reply = "Yes"
          THEN /\ permissions_data' = <<>>
               /\ results_table' = <<>>
               /\ buttons' = [buttons EXCEPT !.export_csv_btn = FALSE,
                                             !.export_selected_csv_btn = FALSE,
                                             !.export_json_btn = FALSE,
                                             !.clear_btn = FALSE]
          ELSE UNCHANGED <<permissions_data, results_table, buttons>>
    /\ UNCHANGED <<app, show_groups_only, folder_exists, workers, signals,
                   not_tab_vars>>

\* The queued progress signal reaches update_scan_progress.
UpdateScanProgress ==
    /\ app = "running"
    /\ signals # <<>>
    /\ Head(signals).signal = "progress"
    /\ signals' = Tail(signals)
    /\ UNCHANGED <<app, buttons, show_groups_only, folder_exists, workers,
                   permissions_data, results_table, not_tab_vars>>

\* The queued finished signal reaches PermissionsTab.scan_completed.
ScanCompleted ==
    /\ app = "running"
    /\ signals # <<>>
    /\ Head(signals).signal = "finished"
    /\ LET delivered == Head(signals).arg
           data == SetPermissionsData(permissions_data, delivered)
       IN  /\ permissions_data' = data
           /\ results_table' = apply_filter(data, results_table,
                                            show_groups_only)
           /\ buttons' = [scan_btn |-> TRUE,
                          export_csv_btn |-> Len(delivered) > 0,
                          export_selected_csv_btn |-> FALSE,
                          export_json_btn |-> Len(delivered) > 0,
                          clear_btn |-> Len(delivered) > 0]
    /\ signals' = Tail(signals)
    /\ UNCHANGED <<app, show_groups_only, folder_exists, workers,
                   not_tab_vars>>

\* The queued error signal reaches PermissionsTab.scan_error.
ScanError ==
    /\ app = "running"
    /\ signals # <<>>
    /\ Head(signals).signal = "error"
    /\ buttons' = [buttons EXCEPT !.scan_btn = TRUE]
    /\ signals' = Tail(signals)
    /\ UNCHANGED <<app, show_groups_only, folder_exists, workers,
                   permissions_data, results_table, not_tab_vars>>

\* The folder is removed from, or put back on, the disk by someone else.
FolderChanges ==
    /\ app = "running"
    /\ folder_exists' = ~folder_exists
    /\ UNCHANGED <<app, buttons, show_groups_only, workers, signals,
                   permissions_data, results_table, not_tab_vars>>

\* One iteration of `for path in self.paths` of ScanWorker.run: the
\* "Scanning" progress, the existence test, the call of
\* scan_folder_permissions and all_permissions.extend.
WorkerScansPath ==
    /\ app = "running"
    /\ \E w \in 1..Len(workers) :
          LET worker == workers[w]
              path == worker.paths[worker.next_path]
              scanning == Signal("progress", w, <<"Scanning: ">> \o path)
          IN  /\ worker.pc = "loop"
              /\ worker.next_path <= Len(worker.paths)
              /\ IF ~PathExists(path)
                 THEN /\ signals' = signals \o
                             <<scanning,
                               Signal("error", w, <<"Path not found: ">> \o path)>>
                      /\ workers' = [workers EXCEPT
                                        ![w].next_path = worker.next_path + 1]
                 ELSE \E scanned \in
                          ScanResults(path, worker.include_subfolders) :
                      /\ signals' = Append(signals, scanning)
                      /\ workers' = [workers EXCEPT
                             ![w].all_permissions =
                                 Extend(worker.all_permissions, scanned),
                             ![w].next_path = worker.next_path + 1]
    /\ UNCHANGED <<app, buttons, show_groups_only, folder_exists,
                   permissions_data, results_table, not_tab_vars>>

\* The loop over the paths is over: finished is emitted and run() returns.
WorkerFinished ==
    /\ app = "running"
    /\ \E w \in 1..Len(workers) :
          LET worker == workers[w]
          IN  /\ worker.pc = "loop"
              /\ worker.next_path > Len(worker.paths)
              /\ workers' = [workers EXCEPT ![w].pc = "finished",
                                            ![w].all_permissions = <<>>]
              /\ signals' = Append(signals,
                                   Signal("finished", w, worker.all_permissions))
    /\ UNCHANGED <<app, buttons, show_groups_only, folder_exists,
                   permissions_data, results_table, not_tab_vars>>

TabInit ==
    /\ ScanIdle
    /\ TabConstructed
    /\ ParseOff
    /\ NoInterruption /\ NoExport /\ NoConversion /\ OtherTabsOff

TabNext ==
    \/ ClickStartScan
    \/ PressEnterInPathField
    \/ ToggleShowGroupsOnly
    \/ ClickClear
    \/ UpdateScanProgress
    \/ ScanCompleted
    \/ ScanError
    \/ FolderChanges
    \/ WorkerScansPath
    \/ WorkerFinished

SpecTab == TabInit /\ [][TabNext]_vars

-----------------------------------------------------------------------------
(* Properties of the folder-permissions tab (checked under SpecTab) *)

\* C11: while a ScanWorker started by start_scan is running, no step
\* creates another ScanWorker: neither the Start Scan button nor Enter in
\* the path field starts a second scan before the first worker has ended.
C11_NoSecondScanWhileRunning ==
    [][(\E w \in 1..Len(workers) : Running(w))
          => Len(workers') = Len(workers)]_vars

\* A step in which the UI thread handles a finished signal (scan_completed).
ScanCompletedStep ==
    /\ signals # <<>>
    /\ Head(signals).signal = "finished"
    /\ signals' = Tail(signals)

\* A step in which the user confirms Clear Results.
ConfirmedClearStep ==
    /\ buttons.clear_btn
    /\ ~buttons'.clear_btn
    /\ signals' = signals

\* C12: a scan completion leaves permissions_data exactly the list that
\* scan delivered (nothing of an earlier scan remains), and a confirmed
\* clear leaves it empty.
C12_DataReplacedWholesale ==
    [][/\ ScanCompletedStep => permissions_data' = Head(signals).arg
       /\ ConfirmedClearStep => permissions_data' = <<>>]_vars

\* A scan that delivered no record has completed after one that delivered
\* records (whose rows the table still shows): none of them is held.
C12_Witness ==
    /\ permissions_data = <<>>
    /\ results_table # <<>>
    /\ signals = <<>>
    /\ Len(workers) = 2
    /\ \A w \in 1..Len(workers) : workers[w].pc = "finished"

-----------------------------------------------------------------------------
(* scan_folder_permissions as the tab's worker calls it *)

\* ScanWorker.run calls scan_folder_permissions with the path start_scan
\* gave the worker.
ScanFromTab ==
    /\ ScanFolderBegin
    /\ \E text \in PathTexts :
          Strip(text) # <<>> /\ folder_path' = WorkerPaths(text)[1]

TabScanNext ==
    \/ ScanFromTab
    \/ ScanNextDirectory
    \/ ScanOnlyFolder
    \/ ScanRaise
    \/ ScanReturn

SpecTabScan == Init /\ [][TabScanNext]_vars

\* The scanned folder and the directories below it, as os.path.normpath
\* writes them.
NormalizedDirectories ==
    {DirPath(NormPath(folder_path), tree, d) : d \in 0..MaxSubdirs}

\* C13: the path of every record a scan holds or returns - from icacls, the
\* per-folder PowerShell fallback or the whole-tree PowerShell scan - is the
\* os.path.normpath form of a directory of the scanned folder.
C13_PathIsNormalized ==
    scan_pc # "idle" =>
        /\ \A i \in 1..Len(permissions) :
              /\ permissions[i].path = NormPath(permissions[i].path)
              /\ permissions[i].path \in NormalizedDirectories
        /\ \A i \in 1..Len(result) :
              /\ result[i].path = NormPath(result[i].path)
              /\ result[i].path \in NormalizedDirectories

\* The whole-tree PowerShell scan returned records of a subdirectory.
C13_Witness ==
    /\ scan_pc = "returned"
    /\ include_subfolders
    /\ os_calls[Len(os_calls)].cmd = "powershell"
    /\ os_calls[Len(os_calls)].recurse
    /\ \E i \in 1..Len(result) : result[i].path # NormPath(folder_path)

-----------------------------------------------------------------------------
(* export_to_csv, and reading the file back                                *)
(* A field is a sequence of tokens; ",", the double quote, "\r", "\n" and  *)
(* the line terminator "\r\n" are tokens of their own.                     *)

MaxCsvRows == 2  \* records in the exported list

\* A Python value: its type and the text str() gives.
PyStr(text) == [type |-> "str", text |-> text]
PyBool(b) == [type |-> "bool", text |-> IF b THEN <<"True">> ELSE <<"False">>]

\* Record lists given to export_to_csv.
CsvIdentities ==
    {<<"Everyone">>, <<"CN=ops", ",", "DC=corp">>, <<"\"", "Guests", "\"">>,
     <<"ops", "\n", "team">>}
CsvEntries ==
    {PermissionEntry(<<"C:", "\\", "data">>, identity, permission, <<"Allow">>,
                     inherited) :
        identity \in CsvIdentities,
        permission \in {<<"Read">>, <<"Read", ",", " ", "List">>},
        inherited \in BOOLEAN}
CsvLists == UNION {[1..n -> CsvEntries] : n \in 0..MaxCsvRows}

fieldnames ==
    <<<<"Path">>, <<"Identity">>, <<"Permission">>, <<"Access Type">>,
      <<"Inherited">>, <<"Scan Time">>>>

\* PermissionEntry.to_dict, its values in the order of fieldnames
to_dict(perm) ==
    <<PyStr(perm.path), PyStr(perm.identity), PyStr(perm.permission),
      PyStr(perm.access_type), PyBool(perm.inherited),
      PyStr(<<"2025-01-31 12:00:00">>)>>

RECURSIVE DoubleQuotes(_)
DoubleQuotes(text) ==
    IF text = <<>> THEN <<>>
    ELSE (IF Head(text) = "\"" THEN <<"\"", "\"">> ELSE <<Head(text)>>)
             \o DoubleQuotes(Tail(text))

\* Mutant: no field is quoted.
QuoteField_Never(text) == text

\* The excel dialect, QUOTE_MINIMAL: a field holding the delimiter, the
\* quote character or a line-terminator character is written quoted, its
\* quotes doubled.
QuoteField(text) ==
    IF \E i \in 1..Len(text) : text[i] \in {",", "\"", "\r", "\n", "\r\n"}
    THEN <<"\"">> \o DoubleQuotes(text) \o <<"\"">>
    ELSE text

\* csv.writer.writerow: str() of each value, quoted as needed, joined by the
\* delimiter, then the line terminator.
RECURSIVE WriteFields(_)
WriteFields(texts) ==
    IF texts = <<>> THEN <<>>
    ELSE IF Len(texts) = 1 THEN QuoteField(texts[1])
    ELSE QuoteField(texts[1]) \o <<",">> \o WriteFields(Tail(texts))

writerow(values) ==
    WriteFields([i \in 1..Len(values) |-> values[i].text]) \o <<"\r\n">>

RECURSIVE WriteRows(_)
WriteRows(perms) ==
    IF perms = <<>> THEN <<>>
    ELSE writerow(to_dict(Head(perms))) \o WriteRows(Tail(perms))

\* What export_to_csv writes: the header, then one row for each record.
CsvFileOf(perms) ==
    writerow([i \in 1..Len(fieldnames) |-> PyStr(fieldnames[i])])
        \o WriteRows(perms)

\* csv.reader over the file opened with newline='': left to right, mode is
\* the reader's state, field and row what it has collected.
RECURSIVE ReadCsv(_, _, _, _)
ReadCsv(toks, mode, field, row) ==
    IF toks = <<>>
    THEN IF mode = "start_record" THEN <<>> ELSE <<Append(row, PyStr(field))>>
    ELSE
    LET t == Head(toks)
        rest == Tail(toks)
        eol == t \in {"\r", "\n", "\r\n"}
    IN  CASE mode = "in_quoted" /\ t = "\"" ->
                 ReadCsv(rest, "quote_in_quoted", field, row)
          [] mode = "in_quoted" /\ t # "\"" ->
                 ReadCsv(rest, "in_quoted", Append(field, t), row)
          [] mode = "quote_in_quoted" /\ t = "\"" ->
                 ReadCsv(rest, "in_quoted", Append(field, t), row)
          [] mode = "start_record" /\ eol ->
                 ReadCsv(rest, "start_record", <<>>, <<>>)
          [] mode # "start_record" /\ eol ->
                 <<Append(row, PyStr(field))>>
                     \o ReadCsv(rest, "start_record", <<>>, <<>>)
          [] t = "," ->
                 ReadCsv(rest, "start_field", <<>>, Append(row, PyStr(field)))
          [] mode \in {"start_record", "start_field"} /\ t = "\"" ->
                 ReadCsv(rest, "in_quoted", <<>>, row)
          [] OTHER ->
                 ReadCsv(rest, "in_field", Append(field, t), row)

\* The columns Path, Identity, Permission, Access Type and Inherited of
\* every row below the header.
ReadBack(file) ==
    LET rows == ReadCsv(file, "start_record", <<>>, <<>>)
    IN  [i \in 1..(Len(rows) - 1) |-> SubSeq(rows[i + 1], 1, 5)]

CsvInit ==
    /\ ScanIdle
    /\ TabConstructed
    /\ ParseOff
    /\ NoInterruption /\ NoConversion /\ OtherTabsOff
    /\ \E perms \in CsvLists :
          csv = [pc |-> "given", permissions |-> perms, file |-> <<>>,
                 rows |-> <<>>]

\* PermissionsTools.export_to_csv; open() or a write can fail.
ExportToCsv ==
    /\ csv.pc = "given"
    /\ \E written \in BOOLEAN :
          csv' = IF written
                 THEN [csv EXCEPT !.pc = "exported",
                                  !.file = CsvFileOf(csv.permissions)]
                 ELSE [csv EXCEPT !.pc = "failed"]
    /\ UNCHANGED <<parse_vars, scan_vars, tab_vars, interruption_requested,
                   conv, other_tabs_vars>>

\* The exported file is read back.
ReadCsvBack ==
    /\ csv.pc = "exported"
    /\ csv' = [csv EXCEPT !.pc = "read", !.rows = ReadBack(csv.file)]
    /\ UNCHANGED <<parse_vars, scan_vars, tab_vars, interruption_requested,
                   conv, other_tabs_vars>>

CsvNext == ExportToCsv \/ ReadCsvBack

SpecCsv == CsvInit /\ [][CsvNext]_vars

\* (path, identity, permission, access_type, inherited) of a record
EntryTuple(perm) == SubSeq(to_dict(perm), 1, 5)

\* C14 as claimed: the rows read back are the tuples (path, identity,
\* permission, access_type, inherited) of the exported records, row for row
\* and in order.
C14_CsvRoundTrip ==
    csv.pc = "read" =>
        csv.rows = [i \in 1..Len(csv.permissions) |->
                        EntryTuple(csv.permissions[i])]

\* C14, amended: the rows read back are, row for row and in order, the
\* str() texts of the tuples: the four strings unchanged, and inherited as
\* the string "True" or "False".
C14_CsvRoundTripAsText ==
    csv.pc = "read" =>
        /\ Len(csv.rows) = Len(csv.permissions)
        /\ \A i \in 1..Len(csv.rows) :
              csv.rows[i] = [k \in 1..5 |->
                  PyStr(EntryTuple(csv.permissions[i])[k].text)]

\* Two records were exported and read back, one with a comma and one with
\* quote characters in its identity.
C14_Witness ==
    /\ csv.pc = "read"
    /\ Len(csv.permissions) = 2
    /\ csv.permissions[1].identity = <<"CN=ops", ",", "DC=corp">>
    /\ csv.permissions[2].identity = <<"\"", "Guests", "\"">>
    /\ csv.permissions[2].inherited

-----------------------------------------------------------------------------
(* Asking a running scan to stop                                           *)
(* A scan with subfolders, run by a ScanWorker.  The scan of one directory *)
(* is one step, so every state of the loop lies between two directories:   *)
(* a request made while a command is in flight is seen there at the        *)
(* earliest.                                                               *)

\* ScanWorker.run calls scan_folder_permissions(path, True).
ScanBelowFromWorker ==
    /\ scan_pc = "idle"
    /\ ScanFolderBegin
    /\ include_subfolders'
    /\ folder_path' = TabRoot

\* QThread.requestInterruption(), which ScanWorker inherits: the one request
\* to stop a ScanWorker accepts.  ScanWorker defines no stop flag or method
\* of its own.
RequestInterruption ==
    /\ scan_pc = "loop"
    /\ ~interruption_requested
    /\ interruption_requested' = TRUE
    /\ UNCHANGED <<parse_vars, scan_vars, tab_vars, csv, conv,
                   other_tabs_vars>>

StopNext ==
    \/ ScanBelowFromWorker
    \/ ScanNextDirectory
    \/ ScanRaise
    \/ ScanReturn
    \/ RequestInterruption

SpecStop == Init /\ [][StopNext]_vars

\* C15 as claimed: once the worker has been asked to stop, the scan goes on
\* to no further directory.
C15_StopsBetweenDirectories ==
    [][interruption_requested => next_dir' = next_dir]_vars

\* C15, amended: a request to stop changes nothing.  A scan that leaves its
\* directory loop has queried every directory of its list, whether or not
\* the worker was asked to stop on the way.
C15_StopRequestIgnored ==
    scan_pc = "scanned" =>
        \A i \in 1..Len(subdirs) :
            \E c \in 1..Len(os_calls) :
                os_calls[c].cmd = "exists" /\ os_calls[c].target = subdirs[i]

\* The worker was asked to stop before the second of three directories and
\* the scan has gone through all three.
C15_Witness ==
    /\ scan_pc = "scanned"
    /\ interruption_requested
    /\ Len(subdirs) = 3
    /\ next_dir = 4
    /\ Len(permissions) > 0

\* ---------------------------------------------------------------------
\* The Port Listener and Speed Test tabs: which thread makes each blocking
\* call.  blocking_calls records every call that can block (a subprocess
\* run to completion, a socket accept or connect, a thread join) with the
\* thread that made it: "ui" for the Qt main thread, which runs every
\* constructor and every slot, or the name of the threading.Thread.
\* Not modelled: the texts the handlers log, the styling of the buttons,
\* the uptime timer, the connection count and the parsed speed results.
\* ---------------------------------------------------------------------

BlockingCall(op, thread) == [op |-> op, thread |-> thread]

\* The command check_speedtest_cli found: the official CLI, the Python
\* speedtest-cli, or none (None in the source).
DetectedCli == {"none", "speedtest", "speedtest-cli"}

\* main_window.py builds SpeedTestTab, whose constructor builds
\* SpeedTestTools, whose constructor runs check_speedtest_cli: it runs
\* "speedtest --version" with subprocess.run and waits for it to exit.
BuildSpeedTestTab ==
    /\ speedtest.pc = "unbuilt"
    /\ \E detected_cli \in DetectedCli :
           speedtest' = [speedtest EXCEPT
                             !.pc = "built",
                             !.speedtest_cli_available = detected_cli]
    /\ blocking_calls' =
           blocking_calls \cup {BlockingCall("subprocess.run", "ui")}
    /\ UNCHANGED <<port, not_net_vars>>

\* SpeedTestTab.run_official_speedtest: speedtest_cli_test starts a thread
\* that runs _cli_test, and the Stop button is enabled.  One test thread at
\* a time is modelled.  stopped tells whether stop_test was called since,
\* while the thread was running; reported is what the thread reported last:
\* the results of the test, its cancellation, or an error.
RunOfficialSpeedtest ==
    /\ speedtest.pc = "built"
    /\ speedtest.test_thread \notin {"started", "polling"}
    /\ speedtest' = [speedtest EXCEPT !.test_thread = "started",
                                      !.stop_btn = TRUE,
                                      !.stopped = FALSE,
                                      !.reported = "none"]
    /\ UNCHANGED <<port, blocking_calls, not_net_vars>>

\* _cli_test up to the poll loop, on the test thread: it sets test_running,
\* returns when no CLI is available, and else starts the process.
CliTestBegin ==
    /\ speedtest.test_thread = "started"
    /\ IF speedtest.speedtest_cli_available = "none"
       THEN /\ speedtest' = [speedtest EXCEPT !.test_running = FALSE,
                                              !.test_thread = "ended",
                                              !.reported = "error"]
            /\ UNCHANGED blocking_calls
       ELSE /\ \E found \in BOOLEAN :
                   speedtest' =
                       IF found
                       THEN [speedtest EXCEPT !.test_running = TRUE,
                                              !.test_thread = "polling"]
                       ELSE [speedtest EXCEPT !.test_running = FALSE,
                                              !.test_thread = "ended",
                                              !.reported = "error"]
            /\ blocking_calls' = blocking_calls
                   \cup {BlockingCall("subprocess.Popen", "test_thread")}
    /\ UNCHANGED <<port, not_net_vars>>

\* _cli_test after the poll loop, on the test thread: the process exited, or
\* test_running was cleared; either way the thread waits for the process
\* (process.communicate or process.wait) and the finally clause clears
\* test_running.  With test_running cleared the process is terminated and
\* the cancellation reported; else the output is parsed and reported, or
\* the failure of the process.
CliTestEnd ==
    /\ speedtest.test_thread = "polling"
    /\ \E completed \in BOOLEAN :
           speedtest' = [speedtest EXCEPT
                             !.test_running = FALSE,
                             !.test_thread = "ended",
                             !.reported =
                                 IF ~speedtest.test_running THEN "cancelled"
                                 ELSE IF completed THEN "results"
                                 ELSE "error"]
    /\ blocking_calls' = blocking_calls \cup
           {BlockingCall(IF speedtest.test_running
                         THEN "process.communicate"
                         ELSE "process.wait", "test_thread")}
    /\ UNCHANGED <<port, not_net_vars>>

\* The Stop button: SpeedTestTab.stop_test -> SpeedTestTools.stop_test
SpeedtestStopTest ==
    /\ speedtest.pc = "built"
    /\ speedtest.stop_btn
    /\ speedtest' = [speedtest EXCEPT
                         !.test_running = FALSE,
                         !.stop_btn = FALSE,
                         !.stopped =
                             speedtest.test_thread \in {"started", "polling"}]
    /\ UNCHANGED <<port, blocking_calls, not_net_vars>>

\* The 45 s timer run_official_speedtest set disables the Stop button.
StopButtonTimer ==
    /\ speedtest.stop_btn
    /\ speedtest' = [speedtest EXCEPT !.stop_btn = FALSE]
    /\ UNCHANGED <<port, blocking_calls, not_net_vars>>

\* PortListenerTab.start_listening with PortListenerTools.start_listening:
\* validate_inputs can raise; the socket is created before bind, which can
\* raise too; on success the listen thread is started.
PortTabStartListening ==
    \E valid \in BOOLEAN, bound \in BOOLEAN :
        /\ port' = IF ~valid THEN port
                   ELSE IF ~bound
                   THEN [port EXCEPT !.socket = "open"]
                   ELSE [port EXCEPT !.socket = "open",
                                     !.listening = TRUE,
                                     !.listen_thread = "alive",
                                     !.is_listening = TRUE]
        /\ UNCHANGED blocking_calls

\* PortListenerTab.stop_listening with PortListenerTools.stop_listening:
\* the slot itself joins the listen thread, for up to three seconds.
PortTabStopListening ==
    /\ \E joined \in BOOLEAN :
           port' = [port EXCEPT
                        !.listening = FALSE,
                        !.socket = "none",
                        !.is_listening = FALSE,
                        !.listen_thread =
                            IF port.listen_thread = "alive" /\ joined
                            THEN "ended" ELSE @]
    /\ blocking_calls' =
           IF port.listen_thread = "alive"
           THEN blocking_calls \cup {BlockingCall("Thread.join", "ui")}
           ELSE blocking_calls

\* The start/stop button: PortListenerTab.toggle_listening
PortToggleListening ==
    /\ IF port.is_listening THEN PortTabStopListening
                            ELSE PortTabStartListening
    /\ UNCHANGED <<speedtest, not_net_vars>>

\* One round of _listen_loop, on the listen thread: the loop ends when the
\* flag or the socket is gone; else accept returns a connection, times out
\* after a second, or raises, which ends the loop.
ListenLoop ==
    /\ port.listen_thread = "alive"
    /\ IF port.listening /\ port.socket # "none"
       THEN /\ \E raised \in BOOLEAN :
                   port' = IF raised
                           THEN [port EXCEPT !.listen_thread = "ended"]
                           ELSE port
            /\ blocking_calls' = blocking_calls
                   \cup {BlockingCall("socket.accept", "listen_thread")}
       ELSE /\ port' = [port EXCEPT !.listen_thread = "ended"]
            /\ UNCHANGED blocking_calls
    /\ UNCHANGED <<speedtest, not_net_vars>>

\* The Test Connection button: PortListenerTab.test_connection calls
\* PortListenerTools.test_connection, which connects with a five second
\* timeout, in the slot.
PortTestConnection ==
    /\ blocking_calls' =
           IF port.is_listening
           THEN blocking_calls \cup {BlockingCall("socket.connect_ex", "ui")}
           ELSE blocking_calls
    /\ UNCHANGED <<port, speedtest, not_net_vars>>

NetNext ==
    \/ BuildSpeedTestTab
    \/ RunOfficialSpeedtest
    \/ CliTestBegin
    \/ CliTestEnd
    \/ SpeedtestStopTest
    \/ StopButtonTimer
    \/ PortToggleListening
    \/ ListenLoop
    \/ PortTestConnection

SpecNet == Init /\ [][NetNext]_vars

\* C16 as claimed: every blocking call is made by a worker thread, none by
\* the UI thread.
C16_NoBlockingCallOnUiThread ==
    \A call \in blocking_calls : call.thread # "ui"

\* ---------------------------------------------------------------------
\* The Service Monitor tab: ServicesTools keeps two dicts, services and
\* last_check_results, and checks services on threading.Thread threads.
\* accesses records which thread read or wrote which of the two dicts:
\* thread 0 is the UI thread, which runs every slot, and thread w >= 1 is
\* service_threads[w].  A dict is modelled by its keys (services) and by
\* the status stored under each key (last_check_results); the other
\* fields of a service and of a result are not modelled, nor are the tree
\* widget, the log texts and the saved configuration file.
\* ---------------------------------------------------------------------

MaxServiceThreads == 2

Statuses == {"healthy", "warning", "critical"}

Access(thread, attribute, mode) ==
    [thread |-> thread, attribute |-> attribute, mode |-> mode]

\* A thread as threading.Thread(target=...).start() leaves it.  target is
\* "_check_all" or "_test_service"; key is the key of the service being
\* checked; seen and size are the state of the dict iterator of _check_all;
\* pending counts the signals the thread emitted that the UI thread has
\* not handled yet.  The locals of a thread that ended are cleared.
ServiceThread(target, key) ==
    [target |-> target,
     pc |-> IF target = "_check_all" THEN "started" ELSE "checking",
     key |-> key, seen |-> {}, size |-> 0, pending |-> 0]

\* update_summary -> get_status_summary, in a slot: len(self.services)
\* and the loop over self.last_check_results.items()
update_summary ==
    {Access(0, "services", "read"), Access(0, "last_check_results", "read")}

\* add_custom_service: add_service stores the service under its key, then
\* update_service_tree reads the services and calls update_summary.
AddCustomService ==
    /\ \E key \in ServiceKeys : services' = services \cup {key}
    /\ accesses' = accesses \cup {Access(0, "services", "write")}
                            \cup update_summary
    /\ UNCHANGED <<last_check_results, service_threads, not_svc_vars>>

\* ServiceMonitorTab.remove_service on a service of the tree, with
\* ServicesTools.remove_service: both dicts lose the key.
RemoveService ==
    /\ \E key \in services, reply \in {"Yes", "No"} :
           IF reply = "Yes"
           THEN /\ services' = services \ {key}
                /\ last_check_results' =
                       [last_check_results EXCEPT ![key] = "absent"]
                /\ accesses' = accesses
                       \cup {Access(0, "services", "read"),
                             Access(0, "services", "write"),
                             Access(0, "last_check_results", "read")}
                       \cup (IF last_check_results[key] # "absent"
                             THEN {Access(0, "last_check_results", "write")}
                             ELSE {})
                       \cup update_summary
           ELSE UNCHANGED <<services, last_check_results, accesses>>
    /\ UNCHANGED <<service_threads, not_svc_vars>>

\* load_service_config: Yes clears both dicts first; the services of the
\* file are added; Cancel returns; an unreadable file adds nothing and
\* skips update_service_tree.
LoadServiceConfig ==
    /\ \E reply \in {"Yes", "No", "Cancel"}, success \in BOOLEAN,
          loaded \in SUBSET ServiceKeys :
           IF reply = "Cancel"
           THEN UNCHANGED <<services, last_check_results, accesses>>
           ELSE /\ services' = (IF reply = "Yes" THEN {} ELSE services)
                               \cup (IF success THEN loaded ELSE {})
                /\ last_check_results' =
                       IF reply = "Yes"
                       THEN [key \in ServiceKeys |-> "absent"]
                       ELSE last_check_results
                /\ accesses' = accesses
                       \cup (IF reply = "Yes"
                             THEN {Access(0, "services", "write"),
                                   Access(0, "last_check_results", "write")}
                             ELSE {})
                       \cup (IF success /\ loaded # {}
                             THEN {Access(0, "services", "write")} ELSE {})
                       \cup (IF success THEN update_summary ELSE {})
    /\ UNCHANGED <<service_threads, not_svc_vars>>

\* refresh_all_services -> check_all_services: a thread running _check_all
RefreshAllServices ==
    /\ Len(service_threads) < MaxServiceThreads
    /\ service_threads' =
           Append(service_threads, ServiceThread("_check_all", "none"))
    /\ UNCHANGED <<services, last_check_results, accesses, not_svc_vars>>

\* test_custom_service -> test_single_service: a thread running
\* _test_service on a service built from the form, which has no category
\* and need not be registered.
TestCustomService ==
    /\ Len(service_threads) < MaxServiceThreads
    /\ \E key \in ServiceKeys :
           service_threads' =
               Append(service_threads, ServiceThread("_test_service", key))
    /\ UNCHANGED <<services, last_check_results, accesses, not_svc_vars>>

\* One round of "for service_id, service in self.services.items()" on the
\* thread: the dict iterator raises RuntimeError when the dict changed size
\* since the loop began, which ends the thread before batch_complete; else
\* it yields a service not yet seen, or the loop ends and batch_complete is
\* emitted.
CheckAllNext(w) ==
    LET thread == service_threads[w]
        size == IF thread.pc = "started" THEN Cardinality(services)
                ELSE thread.size
    IN  /\ thread.target = "_check_all"
        /\ thread.pc \in {"started", "iterating"}
        /\ accesses' = accesses \cup {Access(w, "services", "read")}
        /\ \/ /\ Cardinality(services) # size
              /\ service_threads' =
                     [service_threads EXCEPT ![w].pc = "raised",
                                             ![w].key = "none",
                                             ![w].seen = {},
                                             ![w].size = 0]
           \/ /\ Cardinality(services) = size
              /\ services \ thread.seen = {}
              /\ service_threads' =
                     [service_threads EXCEPT ![w].pc = "ended",
                                             ![w].key = "none",
                                             ![w].seen = {},
                                             ![w].size = 0,
                                             ![w].pending = @ + 1]
           \/ /\ Cardinality(services) = size
              /\ \E key \in services \ thread.seen :
                     service_threads' =
                         [service_threads EXCEPT ![w].pc = "checking",
                                                 ![w].size = size,
                                                 ![w].key = key,
                                                 ![w].seen = @ \cup {key}]
        /\ UNCHANGED <<services, last_check_results, not_svc_vars>>

\* _check_single_service on the thread, after the check returned its
\* status: it stores the result under the key and emits service_checked.
CheckSingleService(w) ==
    LET thread == service_threads[w]
    IN  /\ thread.pc = "checking"
        /\ \E status \in Statuses :
               last_check_results' =
                   [last_check_results EXCEPT ![thread.key] = status]
        /\ accesses' =
               accesses \cup {Access(w, "last_check_results", "write")}
        /\ service_threads' =
               [service_threads EXCEPT
                    ![w].pc = IF thread.target = "_check_all"
                              THEN "iterating" ELSE "ended",
                    ![w].key = "none",
                    ![w].pending = @ + 1]
        /\ UNCHANGED <<services, not_svc_vars>>

\* The UI thread handles a signal of thread w: service_checked runs
\* update_service_status, which ends with update_summary, and
\* batch_complete runs update_summary.
UpdateServiceStatus(w) ==
    /\ service_threads[w].pending > 0
    /\ service_threads' = [service_threads EXCEPT ![w].pending = @ - 1]
    /\ accesses' = accesses \cup update_summary
    /\ UNCHANGED <<services, last_check_results, not_svc_vars>>

ServicesNext ==
    \/ AddCustomService
    \/ RemoveService
    \/ LoadServiceConfig
    \/ RefreshAllServices
    \/ TestCustomService
    \/ \E w \in 1..Len(service_threads) : CheckAllNext(w)
    \/ \E w \in 1..Len(service_threads) : CheckSingleService(w)
    \/ \E w \in 1..Len(service_threads) : UpdateServiceStatus(w)

\* ServiceMonitorTab as its constructor leaves it: load_default_services
\* registered the default services, auto_load_config those of a saved
\* configuration, and update_service_tree ran.
ServicesInit ==
    /\ ScanIdle /\ TabConstructed /\ ParseOff
    /\ NoInterruption /\ NoExport /\ NoConversion /\ NetOff /\ MoreOff
    /\ \E loaded \in SUBSET ServiceKeys : services = DefaultServices \cup loaded
    /\ last_check_results = [key \in ServiceKeys |-> "absent"]
    /\ service_threads = <<>>
    /\ accesses = {Access(0, "services", "write"),
                   Access(0, "services", "read")} \cup update_summary

SpecServices == ServicesInit /\ [][ServicesNext]_vars

\* C17 as claimed: no worker thread writes a variable that the UI thread or
\* another worker reads or writes.
C17_WorkersShareNoMutableState ==
    \A a \in accesses, b \in accesses :
        (a.thread # 0 /\ a.mode = "write" /\ b.thread # a.thread)
            => a.attribute # b.attribute

\* ---------------------------------------------------------------------
\* _convert_to_readable_permissions called on a comma-joined code string.
\* The string is modelled by the sequence of its comma-separated codes.
\* ---------------------------------------------------------------------

MaxCodes == 2  \* codes in one permission_code string

\* Codes of every list the converter tests, codes it knows nothing of (C,
\* REA, the empty string of ''.split(',')), and codes in lower case or
\* padded with spaces.
ConvCodes ==
    {"F", "M", "MODIFY", "R", "RX", "RC", "W", "AD", "X", "GE", "D", "DA",
     "C", "REA", "", "r", "rx", " w "}

CodeStrings == UNION {[1..n -> ConvCodes] : n \in 1..MaxCodes}

ConvInit ==
    /\ ScanIdle /\ TabConstructed /\ ParseOff
    /\ NoInterruption /\ NoExport /\ OtherTabsOff
    /\ \E codes \in CodeStrings :
           conv = [pc |-> "given", codes |-> codes, phrase |-> ""]

Convert ==
    /\ conv.pc = "given"
    /\ conv' = [conv EXCEPT !.pc = "converted",
                            !.phrase = ConvertToReadablePermissions(conv.codes)]
    /\ UNCHANGED <<parse_vars, scan_vars, tab_vars, interruption_requested,
                   csv, other_tabs_vars>>

SpecConvert == ConvInit /\ [][Convert]_vars

\* The codes of the call, stripped and upper-cased, as a set.
GivenCodes == {Upper(conv.codes[i]) : i \in 1..Len(conv.codes)}

\* The tokens the claim lists, in its fixed order, each kept when its
\* condition on the codes holds.
ClaimedTokens ==
    LET has_read == GivenCodes \cap {"R", "RX", "RC", "GR", "RD"} # {}
        has_write == GivenCodes \cap {"W", "WD", "AD", "WEA", "GW"} # {}
        has_execute == GivenCodes \cap {"RX", "X", "GE"} # {}
        has_delete == GivenCodes \cap {"D", "DC", "DA"} # {}
        kept == [Read |-> has_read, Write |-> has_write, Change |-> has_write,
                 Delete |-> has_delete, List |-> has_execute \/ has_read]
    IN  SelectSeq(<<"Read", "Write", "Change", "Delete", "List">>,
                  LAMBDA token : kept[token])

\* C20: with M or MODIFY among the codes and no full-control code the
\* result is the full phrase; with neither, it is the tokens Read, Write,
\* Change, Delete, List in that order, none repeated, Read iff has_read,
\* Write and Change iff has_write, Delete iff has_delete, List iff
\* has_execute or has_read.
C20_ConvertedPhrase ==
    (conv.pc = "converted" /\ GivenCodes \cap {"F", "FC", "FULLCONTROL"} = {})
        => conv.phrase = IF GivenCodes \cap {"M", "MODIFY"} # {}
                         THEN "Read, Write, Change, Delete, List"
                         ELSE Join(ClaimedTokens, ", ")

C20_Witness ==
    /\ conv.pc = "converted"
    /\ conv.codes = <<" w ", "r">>
    /\ conv.phrase = "Read, Write, Change, List"

\* ---------------------------------------------------------------------
\* PermissionsTools.filter_permissions called on a list of records, with
\* the default (empty) filter_text.
\* ---------------------------------------------------------------------

MaxFiltered == 2  \* records in the list given to filter_permissions

\* Identities with and without a backslash, with each named indicator,
\* with a backslash and none of the named ones, and with the word DOMAIN
\* and no backslash.
FilterIdentities ==
    {<<"Everyone">>, <<"jdoe">>, <<"DOMAIN", " ", "Administrators">>,
     <<"BUILTIN", "\\", "Administrators">>, <<"DOMAIN", "\\", "jdoe">>,
     <<"NT AUTHORITY", "\\", "SYSTEM">>,
     <<"CORP", "\\", "Domain", " ", "Administrators">>}

FilterEntries ==
    {PermissionEntry(TabRoot, identity, "Read, List", "Allow", FALSE) :
        identity \in FilterIdentities}

FilterLists == UNION {[1..n -> FilterEntries] : n \in 0..MaxFiltered}

FilterInit ==
    /\ ScanIdle /\ TabConstructed /\ ParseOff
    /\ NoInterruption /\ NoExport /\ NoConversion /\ NetOff /\ ServicesOff
    /\ NoQuery /\ AdTabConstructed
    /\ \E perms \in FilterLists, show_ad_only \in BOOLEAN :
           filt = [pc |-> "given", permissions |-> perms,
                   show_ad_only |-> show_ad_only, is_ad |-> <<>>,
                   filtered |-> <<>>]

\* The call, and is_ad_group on the identity of each record of the list.
FilterPermissions ==
    /\ filt.pc = "given"
    /\ filt' = [filt EXCEPT
                    !.pc = "filtered",
                    !.is_ad = [i \in 1..Len(filt.permissions) |->
                                   is_ad_group(filt.permissions[i].identity)],
                    !.filtered = filter_permissions(filt.permissions,
                                                    filt.show_ad_only)]
    /\ UNCHANGED <<parse_vars, scan_vars, tab_vars, interruption_requested,
                   csv, conv, net_vars, svc_vars, ad, adtab>>

SpecFilter == FilterInit /\ [][FilterPermissions]_vars

\* The indicators the claim lists, looked for in the identity as written.
ListedIndicatorIn(identity) ==
    \E indicator \in {<<"DOMAIN", "\\">>, <<"BUILTIN", "\\">>,
                      <<"\\", "Domain">>, <<"\\">>} :
        Within(indicator, identity)

IsScanning(s) == s.signal = "progress" /\ Head(s.arg) = "Scanning: "

\* run() from the head of `for path in self.paths` to the call of
\* scan_folder_permissions: the "Scanning" message, the existence test and
\* the access test with its message.  pc "call" is the call and what
\* follows it in the loop body.
RunScanningPath ==
    /\ app = "running"
    /\ \E w \in 1..Len(workers) :
          LET worker == workers[w]
              path == worker.paths[worker.next_path]
              scanning == Signal("progress", w, <<"Scanning: ">> \o path)
          IN  /\ worker.pc = "loop"
              /\ worker.next_path <= Len(worker.paths)
              /\ IF ~PathExists(path)
                 THEN /\ signals' = signals \o
                             <<scanning,
                               Signal("error", w, <<"Path not found: ">> \o path)>>
                      /\ workers' = [workers EXCEPT
                                        ![w].next_path = worker.next_path + 1]
                 ELSE /\ \E listed \in BOOLEAN :
                           signals' = signals \o
                             <<scanning,
                               Signal("progress", w,
                                      IF listed
                                      THEN <<"Path accessible, scanning permissions...">>
                                      ELSE <<"Limited access to path, attempting permission scan anyway...">>)>>
                      /\ workers' = [workers EXCEPT ![w].pc = "call"]
    /\ UNCHANGED <<app, buttons, show_groups_only, folder_exists,
                   permissions_data, results_table, not_tab_vars>>

\* self.scanner.scan_folder_permissions(path, self.include_subfolders)
RunCallsScanner ==
    /\ app = "running"
    /\ scan_pc = "idle"
    /\ \E w \in 1..Len(workers) :
          /\ workers[w].pc = "call"
          /\ ScanFolderBegin
          /\ folder_path' = workers[w].paths[workers[w].next_path]
          /\ include_subfolders' = workers[w].include_subfolders

\* The call returned: all_permissions.extend(permissions), the "Found"
\* message, and the loop goes to its next path.  The locals of the call
\* are gone.
RunAfterScan ==
    /\ app = "running"
    /\ scan_pc = "returned"
    /\ \E w \in 1..Len(workers) :
          LET worker == workers[w]
              path == worker.paths[worker.next_path]
          IN  /\ worker.pc = "call"
              /\ workers' = [workers EXCEPT
                     ![w].pc = "loop",
                     ![w].all_permissions =
                         Extend(worker.all_permissions, result),
                     ![w].next_path = worker.next_path + 1]
              /\ signals' = Append(signals,
                     Signal("progress", w,
                            <<"Found ", ToString(Len(result)),
                              " permission entries in ">> \o path))
    /\ scan_pc' = "idle"
    /\ folder_path' = <<>>
    /\ include_subfolders' = FALSE
    /\ tree' = <<>>
    /\ subdirs' = <<>>
    /\ next_dir' = 1
    /\ permissions' = <<>>
    /\ result' = <<>>
    /\ os_calls' = <<>>
    /\ UNCHANGED <<app, buttons, show_groups_only, folder_exists,
                   permissions_data, results_table, parse_vars, rest_vars>>

ProgressNext ==
    \/ ClickStartScan
    \/ RunScanningPath
    \/ RunCallsScanner
    \/ ScanNextDirectory
    \/ ScanOnlyFolder
    \/ ScanRaise
    \/ ScanReturn
    \/ RunAfterScan
    \/ WorkerFinished
    \/ FolderChanges

SpecProgress == TabInit /\ [][ProgressNext]_vars

\* C22 as claimed: for each directory whose ACL the scan has queried, a
\* "Scanning: <directory>" message has been emitted.
C22_ScanningPerDirectory ==
    \A c \in 1..Len(os_calls) :
        os_calls[c].cmd = "icacls" =>
            \E k \in 1..Len(signals) :
                /\ IsScanning(signals[k])
                /\ signals[k].arg = <<"Scanning: ">> \o os_calls[c].target

\* The paths of its list worker w has begun: those the loop is past, and
\* the one whose scan_folder_permissions call it is at.
PathsBegun(w) ==
    (workers[w].next_path - 1) + (IF workers[w].pc = "call" THEN 1 ELSE 0)

\* C22, amended: the worker emits one "Scanning: <path>" message for each
\* path of its list, before that path is scanned, and none for the
\* directories the scan visits below it.
C22_OneScanningPerPath ==
    /\ \A w \in 1..Len(workers) :
           Len(SelectSeq(signals, LAMBDA s : IsScanning(s) /\ s.worker = w))
               = PathsBegun(w)
    /\ \A k \in 1..Len(signals) :
           IsScanning(signals[k]) =>
               \E i \in 1..Len(workers[signals[k].worker].paths) :
                   signals[k].arg = <<"Scanning: ">>
                       \o workers[signals[k].worker].paths[i]

\* The scan has queried the root and a directory below it, and the one
\* "Scanning" message is the one for the root.
C22_Witness ==
    /\ scan_pc = "loop"
    /\ next_dir = 3
    /\ \E c \in 1..Len(os_calls) :
           os_calls[c].cmd = "icacls" /\ os_calls[c].target = subdirs[2]
    /\ Len(SelectSeq(signals, IsScanning)) = 1
    /\ signals[1].arg = <<"Scanning: ">> \o TabRoot

\* The finished and error signals worker w has emitted.
TerminalSignals(w) ==
    SelectSeq(signals, LAMBDA s : s.worker = w /\ s.signal \in {"finished", "error"})

\* C23 as claimed: a run of ScanWorker that has ended emitted exactly one
\* of finished and error, once, also when a path of its list did not exist
\* when the worker tested it.
C23_OneTerminalSignal ==
    \A w \in 1..Len(workers) :
        workers[w].pc = "finished" => Len(TerminalSignals(w)) = 1

\* C24 as claimed: a scan completion leaves in the results table exactly
\* the records of permissions_data that pass the filters, so no row at all
\* when the scan delivered no record.
C24_TableShowsFilteredData ==
    [][ScanCompletedStep =>
           results_table' = filter_permissions(permissions_data',
                                               show_groups_only')]_vars

\* get_status_summary: total, and healthy + warning + critical
SummaryTotal == Cardinality(services)
SummaryChecked ==
    Cardinality({key \in ServiceKeys : last_check_results[key] # "absent"})

\* C25 as claimed: every key of last_check_results is the id of a
\* registered service, so healthy + warning + critical <= total.
C25_ResultsOfRegisteredServices ==
    /\ \A key \in ServiceKeys :
           last_check_results[key] # "absent" => key \in services
    /\ SummaryChecked <= SummaryTotal

\* C26 as claimed: while PortListenerTools.listening is true (and the tab
\* shows "Listening"), the listen thread is executing the accept loop.
C26_ListeningHasLiveListener ==
    (port.listening \/ port.is_listening) => port.listen_thread = "alive"

\* C27 as claimed: when stop_test was called while the test thread was
\* running, the thread does not report the results of the test.
C27_StoppedTestReportsNoResults ==
    speedtest.stopped => speedtest.reported # "results"

\* ------------------------------------------------------------------------
\* ADPasswordWorker._process_user_entry and ADPasswordTools.get_status_summary
\* (src/ad/ad_tools.py).  Dates are day numbers.

MaxUsers == 2

\* max_age_days of _process_user_entry: the 90-day password policy
max_age_days == 90

\* userAccountControl values: none, ACCOUNTDISABLE (0x2), DONT_EXPIRE_PASSWD
\* (0x10000), both.
UacValues == {0, 2, 65536, 65538}

\* pwdLastSet values, for a query made on day 100: never set (0), and set
\* 91, 90, 83 and 82 days before.
PwdLastSetValues == {0, 9, 10, 17, 18}

LdapEntries == [pwdLastSet : PwdLastSetValues, userAccountControl : UacValues]

EntryLists == UNION {[1..n -> LdapEntries] : n \in 0..MaxUsers}

\* uac & flag, for a flag that is a power of two
HasFlag(uac, flag) == (uac \div flag) % 2 = 1

\* _process_user_entry for an entry whose pwdLastSet is set
user_info(entry, now) ==
    LET account_disabled == HasFlag(entry.userAccountControl, 2)
        password_never_expires == HasFlag(entry.userAccountControl, 65536)
    IN  [days_until_expiry |->
             IF password_never_expires THEN 999999
             ELSE (entry.pwdLastSet + max_age_days) - now,
         account_disabled |-> account_disabled,
         password_never_expires |-> password_never_expires]

\* The loop of ADPasswordWorker.run: the entries _process_user_entry
\* returns None for (pwdLastSet not set) are left out.
RECURSIVE users_info(_, _)
users_info(entries, now) ==
    IF entries = <<>> THEN <<>>
    ELSE (IF Head(entries).pwdLastSet = 0 THEN <<>>
          ELSE <<user_info(Head(entries), now)>>)
         \o users_info(Tail(entries), now)

IsExpired(u) == u.days_until_expiry < 0
IsExpiringSoon(u) == 0 <= u.days_until_expiry /\ u.days_until_expiry <= 7
IsNeverExpires(u) == u.password_never_expires
IsDisabled(u) == u.account_disabled

get_status_summary(users_data) ==
    IF users_data = <<>>
    THEN [total |-> 0, expired |-> 0, expiring_soon |-> 0, active |-> 0,
          never_expires |-> 0, disabled |-> 0]
    ELSE LET total == Len(users_data)
             expired == Cardinality({i \in 1..Len(users_data) :
                              IsExpired(users_data[i])})
             expiring_soon == Cardinality({i \in 1..Len(users_data) :
                              IsExpiringSoon(users_data[i])})
             never_expires == Cardinality({i \in 1..Len(users_data) :
                              IsNeverExpires(users_data[i])})
             disabled == Cardinality({i \in 1..Len(users_data) :
                              IsDisabled(users_data[i])})
         IN  [total |-> total, expired |-> expired,
              expiring_soon |-> expiring_soon,
              active |-> total - expired - expiring_soon - never_expires
                             - disabled,
              never_expires |-> never_expires, disabled |-> disabled]

SummaryInit ==
    /\ ParseOff /\ ScanIdle /\ TabConstructed /\ NoInterruption /\ NoExport
    /\ NoConversion /\ NetOff /\ ServicesOff /\ NoFilter /\ AdTabConstructed
    /\ \E entries \in EntryLists :
           ad = [pc |-> "found", now |-> 100, entries |-> entries,
                 users_data |-> <<>>,
                 summary |-> get_status_summary(<<>>)]

\* ADPasswordWorker.run processes the entries of the search; on_data_received
\* stores the list as users_data.
ProcessUserEntries ==
    /\ ad.pc = "found"
    /\ ad' = [ad EXCEPT !.pc = "received",
                        !.users_data = users_info(ad.entries, ad.now)]
    /\ UNCHANGED <<parse_vars, scan_vars, tab_vars, interruption_requested,
                   csv, conv, net_vars, svc_vars, filt, adtab>>

\* The status bar asks for the summary of users_data.
GetStatusSummary ==
    /\ ad.pc = "received"
    /\ ad' = [ad EXCEPT !.pc = "summarised",
                        !.summary = get_status_summary(ad.users_data)]
    /\ UNCHANGED <<parse_vars, scan_vars, tab_vars, interruption_requested,
                   csv, conv, net_vars, svc_vars, filt, adtab>>

SummaryNext == ProcessUserEntries \/ GetStatusSummary

SpecSummary == SummaryInit /\ [][SummaryNext]_vars

\* A user that is in none of the four other categories.
InNoOtherCategory(u) ==
    ~IsExpired(u) /\ ~IsExpiringSoon(u) /\ ~IsNeverExpires(u) /\ ~IsDisabled(u)

\* C28 as claimed: the five counts of the summary are non-negative, every
\* user of the list is counted in exactly one of the five categories, and
\* active is the number of users in none of the other four.
C28_SummaryCountsEachUserOnce ==
    ad.pc = "summarised" =>
        /\ \A f \in {"expired", "expiring_soon", "never_expires", "disabled",
                     "active"} : ad.summary[f] >= 0
        /\ \A i \in 1..Len(ad.users_data) :
               Cardinality({P \in {"expired", "expiring_soon",
                                   "never_expires", "disabled", "active"} :
                   CASE P = "expired" -> IsExpired(ad.users_data[i])
                     [] P = "expiring_soon" -> IsExpiringSoon(ad.users_data[i])
                     [] P = "never_expires" -> IsNeverExpires(ad.users_data[i])
                     [] P = "disabled" -> IsDisabled(ad.users_data[i])
                     [] P = "active" -> InNoOtherCategory(ad.users_data[i])})
                   = 1
        /\ ad.summary.active = Cardinality({i \in 1..Len(ad.users_data) :
                              InNoOtherCategory(ad.users_data[i])})

\* ------------------------------------------------------------------------
\* The result buttons of the folder-permissions tab (checked under SpecTab)

\* C29: in every state the tab reaches by scan completions, scan errors and
\* confirmed clears, the Export-All-CSV, Export-JSON and Clear buttons are
\* enabled exactly when permissions_data is not empty.
C29_ResultButtonsIffData ==
    /\ buttons.export_csv_btn = (permissions_data # <<>>)
    /\ buttons.export_json_btn = (permissions_data # <<>>)
    /\ buttons.clear_btn = (permissions_data # <<>>)

\* A scan has delivered entries and the three buttons are enabled, with a
\* later scan already finished and its result on its way.
C29_Witness ==
    /\ permissions_data # <<>>
    /\ buttons.export_csv_btn /\ buttons.export_json_btn /\ buttons.clear_btn
    /\ Len(workers) >= 2
    /\ signals # <<>>

\* ------------------------------------------------------------------------
\* ADPasswordTab (src/ad/ad_tab.py): test_connection, refresh_data and the
\* auto-refresh timer.  A worker is [kind, pc]: pc is "running" while run()
\* executes, "emitted" once it has emitted its result signal and has not
\* returned yet, "finished" once run() has returned.

MaxAdWorkers == 3

not_adtab_vars == <<parse_vars, scan_vars, tab_vars, interruption_requested,
                    csv, conv, net_vars, svc_vars, filt, ad>>

\* Mutant: a worker counts as running only until it has emitted its result.
isRunning_UntilResult(pc) == pc = "running"

\* QThread.isRunning
isRunning(pc) == pc \in {"running", "emitted"}

\* `self.worker and self.worker.isRunning()`
CurrentAdWorkerRunning ==
    adtab.worker # 0 /\ isRunning(adtab.workers[adtab.worker].pc)

\* test_connection_async / get_password_data_async: the worker is created,
\* started and returned, and the tab keeps it as self.worker.
StartAdWorker(kind) ==
    [adtab EXCEPT !.workers = Append(@, [kind |-> kind, pc |-> "running"]),
                  !.worker = Len(adtab.workers) + 1,
                  !.log = "started"]

\* The user fills in, or empties, a required field of the configuration.
EditConfiguration ==
    /\ adtab' = [adtab EXCEPT !.configured = ~adtab.configured]
    /\ UNCHANGED not_adtab_vars

\* ADPasswordTab.test_connection, by the Test Connection button
TestConnection ==
    /\ adtab.test_btn
    /\ Len(adtab.workers) < MaxAdWorkers
    /\ adtab' =
           IF CurrentAdWorkerRunning
           THEN [adtab EXCEPT !.log = "already in progress"]
           ELSE IF ~adtab.configured
           THEN [adtab EXCEPT !.log = "configuration error"]
           ELSE [StartAdWorker("test") EXCEPT !.test_btn = FALSE]
    /\ UNCHANGED not_adtab_vars

\* ADPasswordTab.refresh_data, by the Refresh Data button or by the timeout
\* of refresh_timer
AdRefreshData ==
    /\ adtab.refresh_btn \/ adtab.refresh_timer
    /\ Len(adtab.workers) < MaxAdWorkers
    /\ adtab' =
           IF CurrentAdWorkerRunning
           THEN [adtab EXCEPT !.log = "already in progress"]
           ELSE IF ~adtab.configured
           THEN [adtab EXCEPT !.log = "configuration error"]
           ELSE [StartAdWorker("refresh") EXCEPT !.refresh_btn = FALSE]
    /\ UNCHANGED not_adtab_vars

\* ADPasswordTab.toggle_auto_refresh: the timer is started or stopped.
ToggleAutoRefresh ==
    /\ adtab' = [adtab EXCEPT !.refresh_timer = ~adtab.refresh_timer]
    /\ UNCHANGED not_adtab_vars

\* run() of a worker emits its result: success or error of the test,
\* finished or error of the query.  The signal is queued for the UI thread.
AdWorkerEmits ==
    /\ \E w \in 1..Len(adtab.workers) :
          /\ adtab.workers[w].pc = "running"
          /\ adtab' = [adtab EXCEPT
                           !.workers[w].pc = "emitted",
                           !.signals = Append(@, adtab.workers[w].kind)]
    /\ UNCHANGED not_adtab_vars

\* run() of a worker returns.
AdWorkerReturns ==
    /\ \E w \in 1..Len(adtab.workers) :
          /\ adtab.workers[w].pc = "emitted"
          /\ adtab' = [adtab EXCEPT !.workers[w].pc = "finished"]
    /\ UNCHANGED not_adtab_vars

\* on_test_success / on_test_error, on_data_received / on_data_error: the
\* button of the operation is enabled again.
AdResultHandled ==
    /\ adtab.signals # <<>>
    /\ adtab' = [adtab EXCEPT
                     !.signals = Tail(@),
                     !.test_btn = IF Head(adtab.signals) = "test"
                                  THEN TRUE ELSE @,
                     !.refresh_btn = IF Head(adtab.signals) = "refresh"
                                     THEN TRUE ELSE @,
                     !.log = "result"]
    /\ UNCHANGED not_adtab_vars

AdTabNext ==
    \/ EditConfiguration
    \/ TestConnection
    \/ AdRefreshData
    \/ ToggleAutoRefresh
    \/ AdWorkerEmits
    \/ AdWorkerReturns
    \/ AdResultHandled

SpecAdTab == Init /\ [][AdTabNext]_vars

\* The worker threads whose run() has not returned.
AdWorkersAlive ==
    {w \in 1..Len(adtab.workers) : adtab.workers[w].pc # "finished"}

\* C30: at most one AD worker thread (connection test or data refresh) is
\* running at any time, and no step of test_connection or refresh_data, by a
\* button or by the timer, starts a worker while another is still running.
C30_AtMostOneAdWorker ==
    /\ Cardinality(AdWorkersAlive) <= 1
    /\ AdWorkersAlive \subseteq {adtab.worker}

\* A worker is running after an earlier one has finished, the timer is
\* active, and the last call found the worker running and started none.
C30_Witness ==
    /\ Len(adtab.workers) >= 2
    /\ Cardinality(AdWorkersAlive) = 1
    /\ adtab.refresh_timer
    /\ adtab.log = "already in progress"

====
